---- MODULE Spec2Model ----
(***************************************************************************)
(* A model of five components:                                             *)
(*   - MetadataVersioned (packages/types/src/metadata/MetadataVersioned.ts) *)
(*     the lazily migrated, cached view of a decoded metadata value;        *)
(*   - StorageKey (primitive/StorageKey.ts, src/unnamed/part_001), the      *)
(*     storage key and the decoding of its arguments from hasher metadata;  *)
(*   - GenericExtrinsicSignatureV4 (extrinsic/v4/ExtrinsicSignature.ts);    *)
(*   - _erasRewards (api-derive staking, src/unnamed/part_001);             *)
(*   - compareRationals (api-derive democracy, src/unnamed/part_002).       *)
(* Each component has its own specification (SpecMeta, SpecKey, SpecSig,    *)
(* SpecEras, SpecRat); the other components' variables stay at their        *)
(* initial value.                                                           *)
(***************************************************************************)
EXTENDS Integers, Sequences, FiniteSets, TLC

VARIABLES
  objs,     \* the MetadataVersioned instances, in creation order
  calls,    \* history: per instance, how often each transform was invoked
  metaOp,   \* history: the last accessor call and what it did
  skey,     \* the StorageKey object
  keyOp,    \* history: the last StorageKey operation and what it did
  xsig,     \* the GenericExtrinsicSignatureV4 object
  sigOp,    \* history: the last signature operation and what it was given
  deriveCache, \* the derive cache: per era, the 'eraRewards-<era>' entry
  queries,  \* the staking.erasValidatorReward queries in flight
  erasOp,   \* history: the last step of _erasRewards and what it did
  rat       \* the locals of the running compareRationals call

metaVars == <<objs, calls, metaOp>>
keyVars == <<skey, keyOp>>
sigVars == <<xsig, sigOp>>
erasVars == <<deriveCache, queries, erasOp>>
ratVars == <<rat>>
nonMetaVars == <<keyVars, sigVars, erasVars, ratVars>>
nonKeyVars == <<metaVars, sigVars, erasVars, ratVars>>
nonSigVars == <<metaVars, keyVars, erasVars, ratVars>>
nonErasVars == <<metaVars, keyVars, sigVars, ratVars>>
nonRatVars == <<metaVars, keyVars, sigVars, erasVars>>
vars == <<objs, calls, metaOp, skey, keyOp, xsig, sigOp, deriveCache, queries, erasOp, rat>>

(***************************************************************************)
(* Bounds of the model.                                                    *)
(***************************************************************************)
\* how many MetadataVersioned instances exist at most (asCallsOnly makes new ones)
MaxInst == 3

(***************************************************************************)
(* MetadataVersioned                                                       *)
(***************************************************************************)
LATEST_VERSION == 14

\* the cache key 'latest' of MetaVersions, encoded as a number next to 9..14
Latest == 0

FirstVersion == 9

MetaVersions == {Latest} \cup (FirstVersion..LATEST_VERSION)

\* A schema value is the sequence of the functions applied to what was decoded:
\* the decoded value of version v is <<[fn |-> "decoded", mv |-> v]>>, and a
\* pure function f called with metaVersion mv appends [fn |-> f, mv |-> mv].
NoValue == <<>>

Decoded(v) == <<[fn |-> "decoded", mv |-> v]>>

\* the one-step transforms: pure functions of (registry, input, metaVersion)
toV10(input, metaVersion) == Append(input, [fn |-> "toV10", mv |-> metaVersion])

toV11(input, metaVersion) == Append(input, [fn |-> "toV11", mv |-> metaVersion])

toV12(input, metaVersion) == Append(input, [fn |-> "toV12", mv |-> metaVersion])

toV13(input, metaVersion) == Append(input, [fn |-> "toV13", mv |-> metaVersion])

toV14(input, metaVersion) == Append(input, [fn |-> "toV14", mv |-> metaVersion])

toLatest(input, metaVersion) == Append(input, [fn |-> "toLatest", mv |-> metaVersion])

toCallsOnly(latest) == Append(latest, [fn |-> "toCallsOnly", mv |-> 0])

getUniqTypes(latest) == Append(latest, [fn |-> "getUniqTypes", mv |-> 0])

\* the transform each accessor hands to #getVersion, by target version
FromPrev(version, input, metaVersion) ==
  CASE version = 10 -> toV10(input, metaVersion)
    [] version = 11 -> toV11(input, metaVersion)
    [] version = 12 -> toV12(input, metaVersion)
    [] version = 13 -> toV13(input, metaVersion)
    [] version = 14 -> toV14(input, metaVersion)
    [] version = Latest -> toLatest(input, metaVersion)

TransformName(version) ==
  CASE version = 10 -> "toV10"
    [] version = 11 -> "toV11"
    [] version = 12 -> "toV12"
    [] version = 13 -> "toV13"
    [] version = 14 -> "toV14"
    [] version = Latest -> "toLatest"

\* #converted = new Map(): no key has a value
EmptyConverted == [k \in MetaVersions |-> NoValue]

Has(converted, k) == converted[k] # NoValue

\* new MetadataVersioned(registry, { magicNumber, metadata })
NewMetadataVersioned(magic, version, value) ==
  [magicNumber |-> magic, version |-> version, metadata |-> value,
   converted |-> EmptyConverted]

\* the outcome of a getter: the instance afterwards, whether it returned, the
\* error thrown otherwise, the value returned, and the transforms it invoked
Returned(self, val, log) ==
  [self |-> self, ok |-> TRUE, err |-> "none", val |-> val, log |-> log]

Thrown(self, err, log) ==
  [self |-> self, ok |-> FALSE, err |-> err, val |-> NoValue, log |-> log]

\* #assertVersion: throws when this.version > version, else this.version === version
AssertVersionNoAssert(self, version) ==
  [ok |-> TRUE, eq |-> self.version = version]

AssertVersionNeverEqual(self, version) ==
  [ok |-> self.version <= version, eq |-> FALSE]

AssertVersion(self, version) ==
  [ok |-> self.version <= version, eq |-> self.version = version]

\* get asV9
AsV9Get(self) ==
  IF ~AssertVersion(self, 9).ok
  THEN Thrown(self, "downgrade", <<>>)
  ELSE Returned(self, self.metadata, <<>>)

\* whether #getVersion returns the embedded value for this target
IsEmbeddedLatestToo(self, version) ==
  AssertVersion(self, IF version = Latest THEN LATEST_VERSION ELSE version).eq

IsEmbedded(self, version) ==
  version # Latest /\ AssertVersion(self, version).eq

\* the key #getVersion looks up and stores under
CacheMissAlways(self, version) == TRUE

CacheMiss(self, version) == ~Has(self.converted, version)

\* asPrev of #getVersion
AsPrevSkipsOne(version) ==
  IF version = Latest THEN LATEST_VERSION
  ELSE IF version - 2 >= FirstVersion THEN version - 2 ELSE version - 1

AsPrevLatestSkips(version) ==
  IF version = Latest THEN LATEST_VERSION - 1 ELSE version - 1

AsPrev(version) ==
  IF version = Latest THEN LATEST_VERSION ELSE version - 1

\* #getVersion storing into a fresh map instead of this.#converted
RECURSIVE GetVersionFreshMap(_, _)
GetVersionFreshMap(self, version) ==
  IF version # Latest /\ ~AssertVersion(self, version).ok
  THEN Thrown(self, "downgrade", <<>>)
  ELSE IF IsEmbedded(self, version)
  THEN Returned(self, self.metadata, <<>>)
  ELSE IF CacheMiss(self, version)
  THEN LET prev == IF AsPrev(version) = 9
                   THEN AsV9Get(self)
                   ELSE GetVersionFreshMap(self, AsPrev(version))
       IN IF ~prev.ok
          THEN prev
          ELSE LET val == FromPrev(version, prev.val, prev.self.version)
                   call == [fn |-> TransformName(version),
                            mv |-> prev.self.version, input |-> prev.val]
                   after == [prev.self EXCEPT
                               !.converted = [EmptyConverted EXCEPT ![version] = val]]
               IN Returned(after, after.converted[version], Append(prev.log, call))
  ELSE Returned(self, self.converted[version], <<>>)

\* #getVersion handing fromPrev the version of its input instead of this.version
RECURSIVE GetVersionInputVersion(_, _)
GetVersionInputVersion(self, version) ==
  IF version # Latest /\ ~AssertVersion(self, version).ok
  THEN Thrown(self, "downgrade", <<>>)
  ELSE IF IsEmbedded(self, version)
  THEN Returned(self, self.metadata, <<>>)
  ELSE IF CacheMiss(self, version)
  THEN LET prev == IF AsPrev(version) = 9
                   THEN AsV9Get(self)
                   ELSE GetVersionInputVersion(self, AsPrev(version))
       IN IF ~prev.ok
          THEN prev
          ELSE LET val == FromPrev(version, prev.val, AsPrev(version))
                   call == [fn |-> TransformName(version),
                            mv |-> AsPrev(version), input |-> prev.val]
                   after == [prev.self EXCEPT !.converted[version] = val]
               IN Returned(after, after.converted[version], Append(prev.log, call))
  ELSE Returned(self, self.converted[version], <<>>)

\* #getVersion(version, fromPrev), with this[asPrev] resolved to the getter
RECURSIVE GetVersion(_, _)
GetVersion(self, version) ==
  IF version # Latest /\ ~AssertVersion(self, version).ok
  THEN Thrown(self, "downgrade", <<>>)
  ELSE IF IsEmbedded(self, version)
  THEN Returned(self, self.metadata, <<>>)
  ELSE IF CacheMiss(self, version)
  THEN LET prev == IF AsPrev(version) = 9
                   THEN AsV9Get(self)
                   ELSE GetVersion(self, AsPrev(version))
       IN IF ~prev.ok
          THEN prev
          ELSE LET val == FromPrev(version, prev.val, prev.self.version)
                   call == [fn |-> TransformName(version),
                            mv |-> prev.self.version, input |-> prev.val]
                   after == [prev.self EXCEPT !.converted[version] = val]
               IN Returned(after, after.converted[version], Append(prev.log, call))
  ELSE Returned(self, self.converted[version], <<>>)

\* get asLatest
AsLatestGet(self) == GetVersion(self, Latest)

\* toJSON: what it leaves, and the cache as it is when super.toJSON() starts
ToJSONSerializeFirst(self) ==
  LET r == AsLatestGet(self)
  IN [r EXCEPT !.val = self.converted]

ToJSONBody(self) ==
  LET r == AsLatestGet(self)
  IN [r EXCEPT !.val = r.self.converted]

\* how often transform fn occurs in a log
RECURSIVE Count(_, _)
Count(log, fn) ==
  IF log = <<>> THEN 0
  ELSE (IF Head(log).fn = fn THEN 1 ELSE 0) + Count(Tail(log), fn)

NoCalls == [k \in MetaVersions \ {FirstVersion} |-> 0]

AddCalls(c, log) ==
  [k \in MetaVersions \ {FirstVersion} |-> c[k] + Count(log, TransformName(k))]

NoMetaOp ==
  [op |-> "none", inst |-> 0, target |-> Latest, ok |-> TRUE, err |-> "none",
   val |-> NoValue, log |-> <<>>, pre |-> EmptyConverted, snap |-> EmptyConverted,
   made |-> 0]

\* record an accessor call on instance i with outcome r
Record(i, op, target, r) ==
  /\ objs' = [objs EXCEPT ![i] = r.self]
  /\ calls' = [calls EXCEPT ![i] = AddCalls(calls[i], r.log)]
  /\ metaOp' = [op |-> op, inst |-> i, target |-> target, ok |-> r.ok,
                err |-> r.err, val |-> r.val, log |-> r.log,
                pre |-> objs[i].converted, snap |-> EmptyConverted, made |-> 0]

MetaInit ==
  /\ \E v \in FirstVersion..LATEST_VERSION :
        objs = <<NewMetadataVersioned("meta", v, Decoded(v))>>
  /\ calls = <<NoCalls>>
  /\ metaOp = NoMetaOp

AsV9 ==
  \E i \in 1..Len(objs) :
     /\ Record(i, "asV9", 9, AsV9Get(objs[i]))
     /\ UNCHANGED nonMetaVars

AsV10 ==
  \E i \in 1..Len(objs) :
     /\ Record(i, "asV10", 10, GetVersion(objs[i], 10))
     /\ UNCHANGED nonMetaVars

AsV11 ==
  \E i \in 1..Len(objs) :
     /\ Record(i, "asV11", 11, GetVersion(objs[i], 11))
     /\ UNCHANGED nonMetaVars

AsV12 ==
  \E i \in 1..Len(objs) :
     /\ Record(i, "asV12", 12, GetVersion(objs[i], 12))
     /\ UNCHANGED nonMetaVars

AsV13 ==
  \E i \in 1..Len(objs) :
     /\ Record(i, "asV13", 13, GetVersion(objs[i], 13))
     /\ UNCHANGED nonMetaVars

AsV14 ==
  \E i \in 1..Len(objs) :
     /\ Record(i, "asV14", 14, GetVersion(objs[i], 14))
     /\ UNCHANGED nonMetaVars

AsLatest ==
  \E i \in 1..Len(objs) :
     /\ Record(i, "asLatest", Latest, AsLatestGet(objs[i]))
     /\ UNCHANGED nonMetaVars

GetUniqTypes ==
  \E i \in 1..Len(objs) :
     LET r == AsLatestGet(objs[i])
     IN /\ Record(i, "getUniqTypes", Latest, [r EXCEPT !.val = getUniqTypes(r.val)])
        /\ UNCHANGED nonMetaVars

ToJSON ==
  \E i \in 1..Len(objs) :
     LET r == ToJSONBody(objs[i])
     IN /\ objs' = [objs EXCEPT ![i] = r.self]
        /\ calls' = [calls EXCEPT ![i] = AddCalls(calls[i], r.log)]
        /\ metaOp' = [op |-> "toJSON", inst |-> i, target |-> Latest, ok |-> r.ok,
                      err |-> r.err, val |-> NoValue, log |-> r.log,
                      pre |-> objs[i].converted, snap |-> r.val, made |-> 0]
        /\ UNCHANGED nonMetaVars

\* get asCallsOnly handing the new instance the receiver's #converted map
AsCallsOnlySharesCache ==
  \E i \in 1..Len(objs) :
     /\ Len(objs) < MaxInst
     /\ LET r == AsLatestGet(objs[i])
            made == [NewMetadataVersioned(r.self.magicNumber, LATEST_VERSION,
                                          toCallsOnly(r.val))
                       EXCEPT !.converted = r.self.converted]
        IN /\ objs' = Append([objs EXCEPT ![i] = r.self], made)
           /\ calls' = Append([calls EXCEPT ![i] = AddCalls(calls[i], r.log)], NoCalls)
           /\ metaOp' = [op |-> "asCallsOnly", inst |-> i, target |-> Latest,
                         ok |-> r.ok, err |-> r.err, val |-> made.metadata,
                         log |-> r.log, pre |-> objs[i].converted,
                         snap |-> EmptyConverted, made |-> Len(objs) + 1]
     /\ UNCHANGED nonMetaVars

\* get asCallsOnly: a new instance made from this.asLatest
AsCallsOnly ==
  \E i \in 1..Len(objs) :
     /\ Len(objs) < MaxInst
     /\ LET r == AsLatestGet(objs[i])
            made == NewMetadataVersioned(r.self.magicNumber, LATEST_VERSION,
                                         toCallsOnly(r.val))
        IN /\ objs' = Append([objs EXCEPT ![i] = r.self], made)
           /\ calls' = Append([calls EXCEPT ![i] = AddCalls(calls[i], r.log)], NoCalls)
           /\ metaOp' = [op |-> "asCallsOnly", inst |-> i, target |-> Latest,
                         ok |-> r.ok, err |-> r.err, val |-> made.metadata,
                         log |-> r.log, pre |-> objs[i].converted,
                         snap |-> EmptyConverted, made |-> Len(objs) + 1]
     /\ UNCHANGED nonMetaVars

MetaNext ==
  \/ AsV9
  \/ AsV10
  \/ AsV11
  \/ AsV12
  \/ AsV13
  \/ AsV14
  \/ AsLatest
  \/ GetUniqTypes
  \/ ToJSON
  \/ AsCallsOnly

(***************************************************************************)
(* StorageKey                                                              *)
(***************************************************************************)
\* Bytes are sequences of numbers 0..255.  Subarray is Uint8Array.subarray:
\* begin and end are clamped to the length
Min(a, b) == IF a < b THEN a ELSE b

Subarray(u8a, begin, end) == SubSeq(u8a, Min(begin, Len(u8a)) + 1, Min(end, Len(u8a)))

\* a hash of len bytes: a fixed function of the data (of its first byte and
\* its length), the algorithm and len
HashAsU8a(data, len, salt) ==
  [i \in 1..len |-> (salt + 13 * i + 7 * data[1] + Len(data)) % 256]

\* the hashers as they build a key: the hash, followed by the data for *Concat
GetHasher(hasher, data) ==
  CASE hasher = "Blake2_128" -> HashAsU8a(data, 16, 1)
    [] hasher = "Blake2_128Concat" -> HashAsU8a(data, 16, 1) \o data
    [] hasher = "Blake2_256" -> HashAsU8a(data, 32, 1)
    [] hasher = "Identity" -> data
    [] hasher = "Twox128" -> HashAsU8a(data, 16, 2)
    [] hasher = "Twox256" -> HashAsU8a(data, 32, 2)
    [] hasher = "Twox64Concat" -> HashAsU8a(data, 8, 2) \o data

AllHashers ==
  {"Blake2_128", "Blake2_128Concat", "Blake2_256", "Identity", "Twox128",
   "Twox256", "Twox64Concat"}

\* the table with the flags of Twox128 and Twox64Concat exchanged
HASHER_MAPFlagsExchanged(hasher) ==
  CASE hasher = "Blake2_128" -> <<16, FALSE>>
    [] hasher = "Blake2_128Concat" -> <<16, TRUE>>
    [] hasher = "Blake2_256" -> <<32, FALSE>>
    [] hasher = "Identity" -> <<0, TRUE>>
    [] hasher = "Twox128" -> <<16, TRUE>>
    [] hasher = "Twox256" -> <<32, FALSE>>
    [] hasher = "Twox64Concat" -> <<8, FALSE>>

\* hasher type -> [initialHashLength, canDecodeKey]
HASHER_MAP(hasher) ==
  CASE hasher = "Blake2_128" -> <<16, FALSE>>
    [] hasher = "Blake2_128Concat" -> <<16, TRUE>>
    [] hasher = "Blake2_256" -> <<32, FALSE>>
    [] hasher = "Identity" -> <<0, TRUE>>
    [] hasher = "Twox128" -> <<16, FALSE>>
    [] hasher = "Twox256" -> <<32, FALSE>>
    [] hasher = "Twox64Concat" -> <<8, TRUE>>

\* compactToU8a: the smallest of the one-, two- and four-byte modes that holds
\* n (n < 2^30; the lengths here stay far below)
CompactToU8a(n) ==
  IF n < 64 THEN <<4 * n>>
  ELSE IF n < 16384 THEN <<(4 * (n % 64) + 1), n \div 64>>
  ELSE <<(4 * (n % 64) + 2), (n \div 64) % 256, (n \div 16384) % 256, n \div 4194304>>

\* compactFromU8a: [offset, length] by the two low bits of the first byte; a
\* byte past the end counts as 0, and the multi-byte mode holds a number of
\* 2^30 at least
CompactFromU8a(u8a) ==
  LET Mode(flag, at) ==
        CASE flag = 0 -> [offset |-> 1, length |-> at[1] \div 4]
          [] flag = 1 -> [offset |-> 2, length |-> at[1] \div 4 + 64 * at[2]]
          [] flag = 2 -> [offset |-> 4,
                          length |-> at[1] \div 4 + 64 * at[2] + 16384 * at[3]
                                       + 4194304 * at[4]]
          [] flag = 3 -> [offset |-> 5 + at[1] \div 4, length |-> 1073741824]
  IN Mode((IF u8a = <<>> THEN 0 ELSE u8a[1]) % 4,
          [i \in 1..4 |-> IF i <= Len(u8a) THEN u8a[i] ELSE 0])

\* compactAddLength
CompactAddLength(u8a) == CompactToU8a(Len(u8a)) \o u8a

\* decodeBytesU8a of Bytes: a Uint8Array that is not empty has a length prefix
DecodeBytesU8a(value) ==
  IF value = <<>>
  THEN [ok |-> TRUE, err |-> "none", bytes |-> <<>>]
  ELSE LET Cut(offset, total) ==
             IF total > Len(value)
             THEN [ok |-> FALSE, err |-> "bytesLength", bytes |-> <<>>]
             ELSE [ok |-> TRUE, err |-> "none", bytes |-> Subarray(value, offset, total)]
           Prefixed(c) == Cut(c.offset, c.offset + c.length)
       IN Prefixed(CompactFromU8a(value))

\* The registry's lookup: type id -> definition.  Ids outside it do not resolve.
SiTypes ==
  [id \in 1..6 |->
     CASE id = 1 -> [name |-> "u8", size |-> 1, tuple |-> <<>>]
       [] id = 2 -> [name |-> "u32", size |-> 4, tuple |-> <<>>]
       [] id = 3 -> [name |-> "bool", size |-> 1, tuple |-> <<>>]
       [] id = 4 -> [name |-> "(u32,u8)", size |-> 5, tuple |-> <<2, 1>>]
       [] id = 5 -> [name |-> "u64", size |-> 8, tuple |-> <<>>]
       [] id = 6 -> [name |-> "Bytes", size |-> 1, tuple |-> <<>>]]

Resolves(id) == id \in DOMAIN SiTypes

\* a decoded Codec value: its type name and its encoding (encodedLength is the
\* length of u8a)
NoCodec == [type |-> "none", u8a |-> <<>>]

\* registry.createType(registry.createLookupType(id), u8a): fails on an id that
\* does not resolve, on too few bytes, and on a bool byte other than 0 and 1;
\* a Bytes (size: that of its shortest encoding) is its length prefix and as
\* many bytes as that says
CreateType(id, u8a) ==
  IF ~Resolves(id)
  THEN [ok |-> FALSE, err |-> "unknownType", codec |-> NoCodec]
  ELSE LET def == SiTypes[id]
       IN IF Len(u8a) < def.size
          THEN [ok |-> FALSE, err |-> "decode", codec |-> NoCodec]
          ELSE IF def.name = "bool" /\ u8a[1] \notin {0, 1}
          THEN [ok |-> FALSE, err |-> "decode", codec |-> NoCodec]
          ELSE IF def.name = "Bytes"
          THEN LET AsBytes(b) ==
                     IF b.ok
                     THEN [ok |-> TRUE, err |-> "none",
                           codec |-> [type |-> "Bytes", u8a |-> CompactAddLength(b.bytes)]]
                     ELSE [ok |-> FALSE, err |-> "decode", codec |-> NoCodec]
               IN AsBytes(DecodeBytesU8a(u8a))
          ELSE [ok |-> TRUE, err |-> "none",
                codec |-> [type |-> def.name, u8a |-> SubSeq(u8a, 1, def.size)]]

\* registry.createType('Raw', u8a): any bytes are a Raw
CreateRaw(u8a) ==
  [ok |-> TRUE, err |-> "none", codec |-> [type |-> "Raw", u8a |-> u8a]]

\* the little-endian number a decoded value holds
RECURSIVE U8aToNumber(_)
U8aToNumber(u8a) ==
  IF u8a = <<>> THEN 0 ELSE Head(u8a) + 256 * U8aToNumber(Tail(u8a))

\* the encoding of the number n as the type id (id resolves, not a tuple)
NumberToU8a(id, n) ==
  [i \in 1..SiTypes[id].size |-> (n \div (256 ^ (i - 1))) % 256]

\* getSiName(registry.lookup, id)
GetSiName(id) ==
  IF Resolves(id)
  THEN [ok |-> TRUE, err |-> "none", name |-> SiTypes[id].name]
  ELSE [ok |-> FALSE, err |-> "unknownType", name |-> ""]

\* StorageEntryTypeLatest: Plain(asPlain) or Map({ hashers, key, value })
PlainType(id) ==
  [isPlain |-> TRUE, isMap |-> FALSE, asPlain |-> id, hashers |-> <<>>,
   key |-> 0, value |-> 0]

MapType(hashers, key, value) ==
  [isPlain |-> FALSE, isMap |-> TRUE, asPlain |-> 0, hashers |-> hashers,
   key |-> key, value |-> value]

\* a StorageEntryMetadataLatest, or undefined
NoMeta == [defined |-> FALSE, type |-> PlainType(0)]

Meta(type) == [defined |-> TRUE, type |-> type]

UnwrapStorageSi(type) == IF type.isPlain THEN type.asPlain ELSE type.value

UnwrapStorageType(type) == GetSiName(UnwrapStorageSi(type))

\* one step of the reduce in decodeHashers: the decoded argument and the offset
\* after it
DecodeStepNoHashLen(value, offset, hasher, type) ==
  LET hashLen == HASHER_MAP(hasher)[1]
      canDecode == HASHER_MAP(hasher)[2]
      decoded == IF canDecode
                 THEN CreateType(type, Subarray(value, offset, Len(value)))
                 ELSE CreateRaw(Subarray(value, offset, offset + hashLen))
  IN [ok |-> decoded.ok, err |-> decoded.err, codec |-> decoded.codec,
      offset |-> offset + hashLen + (IF canDecode THEN Len(decoded.codec.u8a) ELSE 0)]

DecodeStep(value, offset, hasher, type) ==
  LET hashLen == HASHER_MAP(hasher)[1]
      canDecode == HASHER_MAP(hasher)[2]
      decoded == IF canDecode
                 THEN CreateType(type, Subarray(value, offset + hashLen, Len(value)))
                 ELSE CreateRaw(Subarray(value, offset, offset + hashLen))
  IN [ok |-> decoded.ok, err |-> decoded.err, codec |-> decoded.codec,
      offset |-> offset + hashLen + (IF canDecode THEN Len(decoded.codec.u8a) ELSE 0)]

\* the outcome of decoding the arguments: whether it returned, the error thrown
\* otherwise, the arguments, and the offset before each hasher and at the end
DecodeThrew(err) == [ok |-> FALSE, err |-> err, args |-> <<>>, offsets |-> <<>>]

RECURSIVE DecodeHashersFrom(_, _, _, _, _)
DecodeHashersFrom(value, hashers, i, result, offsets) ==
  IF i > Len(hashers)
  THEN [ok |-> TRUE, err |-> "none", args |-> result, offsets |-> offsets]
  ELSE LET step == DecodeStep(value, offsets[Len(offsets)], hashers[i][1], hashers[i][2])
       IN IF ~step.ok
          THEN DecodeThrew(step.err)
          ELSE DecodeHashersFrom(value, hashers, i + 1, Append(result, step.codec),
                                 Append(offsets, step.offset))

\* decodeHashers with the offset starting at the first byte of the key
DecodeHashersOffsetZero(value, hashers) == DecodeHashersFrom(value, hashers, 1, <<>>, <<0>>)

\* decodeHashers: the reduce over the [hasher, type] pairs, offset starting at 32
DecodeHashers(value, hashers) == DecodeHashersFrom(value, hashers, 1, <<>>, <<32>>)

\* the early return of decodeArgsFromMeta
SkipsDecodingNoMapCheck(meta) == ~meta.defined

SkipsDecoding(meta) == ~meta.defined \/ ~meta.type.isMap

\* decodeArgsFromMeta taking keys = [key] whatever the number of hashers
DecodeArgsFromMetaKeyOnly(value, meta) ==
  IF SkipsDecoding(meta)
  THEN [ok |-> TRUE, err |-> "none", args |-> <<>>, offsets |-> <<>>]
  ELSE LET hashers == meta.type.hashers
           key == meta.type.key
           keys == <<key>>
       IN DecodeHashers(value,
            [i \in 1..Len(hashers) |->
               <<hashers[i], IF i <= Len(keys) THEN keys[i] ELSE 0>>])

\* decodeArgsFromMeta: keys[i] is undefined (0 here) past the end of the tuple,
\* and .asTuple throws for a key type that is no tuple
DecodeArgsFromMeta(value, meta) ==
  IF SkipsDecoding(meta)
  THEN [ok |-> TRUE, err |-> "none", args |-> <<>>, offsets |-> <<>>]
  ELSE LET hashers == meta.type.hashers
           key == meta.type.key
           isTuple == Resolves(key) /\ SiTypes[key].tuple # <<>>
           keys == IF Len(hashers) = 1 THEN <<key>> ELSE SiTypes[key].tuple
       IN IF Len(hashers) # 1 /\ ~isTuple
          THEN DecodeThrew(IF Resolves(key) THEN "notTuple" ELSE "unknownType")
          ELSE DecodeHashers(value,
                 [i \in 1..Len(hashers) |->
                    <<hashers[i], IF i <= Len(keys) THEN keys[i] ELSE 0>>])

\* A StorageKey: the Bytes it extends (bytes, what toU8a(true) gives) and its
\* private fields; hasArgs is FALSE while _args is still undefined, and the
\* empty string stands for an undefined method or section
NoKey ==
  [exists |-> FALSE, bytes |-> <<>>, hasArgs |-> FALSE, args |-> <<>>,
   meta |-> NoMeta, outputType |-> "", method |-> "", section |-> ""]

\* a || b on strings
OrElse(a, b) == IF a # "" THEN a ELSE b

\* setMeta: the key afterwards, whether it returned, and what the argument
\* decoding did (ran is FALSE when it was not reached)
NotRun == [ran |-> FALSE, ok |-> TRUE, err |-> "none", args |-> <<>>, offsets |-> <<>>]

Ran(d) == [ran |-> TRUE, ok |-> d.ok, err |-> d.err, args |-> d.args, offsets |-> d.offsets]

SetMetaOn(self, meta, section, method) ==
  LET s1 == [self EXCEPT !.meta = meta,
                         !.method = OrElse(method, self.method),
                         !.section = OrElse(section, self.section)]
      out == UnwrapStorageType(meta.type)
  IN IF meta.defined /\ ~out.ok
     THEN [self |-> s1, ok |-> FALSE, err |-> out.err, decode |-> NotRun]
     ELSE LET s2 == IF meta.defined THEN [s1 EXCEPT !.outputType = out.name] ELSE s1
              d == DecodeArgsFromMeta(s2.bytes, s2.meta)
          IN [self |-> IF d.ok THEN [s2 EXCEPT !.args = d.args, !.hasArgs = TRUE]
                       ELSE s2,
              ok |-> TRUE, err |-> "none", decode |-> Ran(d)]

\* A StorageEntry: the function with its meta, method and section.  Calling it
\* gives the two 128-bit hashes of section and method, followed by each
\* argument hashed by its hasher
NameCode(name) ==
  CASE name = "system" -> 115
    [] name = "account" -> 97
    [] OTHER -> 0

EntryPrefix(entry) ==
  HashAsU8a(<<NameCode(entry.section)>>, 16, 2) \o HashAsU8a(<<NameCode(entry.method)>>, 16, 2)

RECURSIVE HashedArgs(_, _, _, _)
HashedArgs(hashers, keys, args, i) ==
  IF i > Len(hashers) THEN <<>>
  ELSE GetHasher(hashers[i], NumberToU8a(keys[i], args[i]))
         \o HashedArgs(hashers, keys, args, i + 1)

CallEntry(entry, args) ==
  IF ~entry.meta.defined \/ ~entry.meta.type.isMap
  THEN [ok |-> TRUE, err |-> "none", key |-> EntryPrefix(entry)]
  ELSE LET hashers == entry.meta.type.hashers
           key == entry.meta.type.key
           keys == IF Len(hashers) = 1 THEN <<key>>
                   ELSE IF Resolves(key) THEN SiTypes[key].tuple ELSE <<>>
       IN IF Len(keys) # Len(hashers) \/ \E i \in 1..Len(keys) : ~Resolves(keys[i])
          THEN [ok |-> FALSE, err |-> "unknownType", key |-> <<>>]
          ELSE IF Len(args) # Len(keys)
          THEN [ok |-> FALSE, err |-> "needsArguments", key |-> <<>>]
          ELSE [ok |-> TRUE, err |-> "none",
                key |-> EntryPrefix(entry) \o HashedArgs(hashers, keys, args, 1)]

\* the entry as a function: what it returns is the key with its length prefix;
\* an entry made with skipHashing returns its fixed key, length-prefixed
StorageFn(entry, args) ==
  IF entry.skipHashing
  THEN [ok |-> TRUE, err |-> "none", key |-> CompactAddLength(entry.key)]
  ELSE LET WithLength(called) ==
             [called EXCEPT !.key = IF called.ok THEN CompactAddLength(called.key) ELSE <<>>]
       IN WithLength(CallEntry(entry, args))

\* createRuntimeFunction(section, method, key, { docs, type }): an entry of
\* plain type that keeps key (the bytes of the string) as it is
CreateRuntimeFunction(section, method, key, type) ==
  [meta |-> Meta(PlainType(CHOOSE id \in DOMAIN SiTypes : SiTypes[id].name = type)),
   method |-> method, section |-> section, key |-> key, skipHashing |-> TRUE]

\* the table with the key of heapPages copied to code
substrateCodeKeyCopied ==
  [changesTrieConfig |->
     CreateRuntimeFunction("Substrate", "changesTrieConfig",
       <<58, 99, 104, 97, 110, 103, 101, 115, 95, 116, 114, 105, 101>>, "u32"),
   childStorageKeyPrefix |->
     CreateRuntimeFunction("Substrate", "childStorageKeyPrefix",
       <<58, 99, 104, 105, 108, 100, 95, 115, 116, 111, 114, 97, 103, 101, 58>>, "u32"),
   code |->
     CreateRuntimeFunction("Substrate", "code",
       <<58, 104, 101, 97, 112, 112, 97, 103, 101, 115>>, "Bytes"),
   extrinsicIndex |->
     CreateRuntimeFunction("Substrate", "extrinsicIndex",
       <<58, 101, 120, 116, 114, 105, 110, 115, 105, 99, 95, 105, 110, 100, 101, 120>>, "u32"),
   heapPages |->
     CreateRuntimeFunction("Substrate", "heapPages",
       <<58, 104, 101, 97, 112, 112, 97, 103, 101, 115>>, "u64")]

\* the well-known entries: ':changes_trie', ':child_storage:', ':code',
\* ':extrinsic_index' and ':heappages', each string as its bytes
substrate ==
  [changesTrieConfig |->
     CreateRuntimeFunction("Substrate", "changesTrieConfig",
       <<58, 99, 104, 97, 110, 103, 101, 115, 95, 116, 114, 105, 101>>, "u32"),
   childStorageKeyPrefix |->
     CreateRuntimeFunction("Substrate", "childStorageKeyPrefix",
       <<58, 99, 104, 105, 108, 100, 95, 115, 116, 111, 114, 97, 103, 101, 58>>, "u32"),
   code |->
     CreateRuntimeFunction("Substrate", "code",
       <<58, 99, 111, 100, 101>>, "Bytes"),
   extrinsicIndex |->
     CreateRuntimeFunction("Substrate", "extrinsicIndex",
       <<58, 101, 120, 116, 114, 105, 110, 115, 105, 99, 95, 105, 110, 100, 101, 120>>, "u32"),
   heapPages |->
     CreateRuntimeFunction("Substrate", "heapPages",
       <<58, 104, 101, 97, 112, 112, 97, 103, 101, 115>>, "u64")]

NoEntry == [meta |-> NoMeta, method |-> "", section |-> "", key |-> <<>>, skipHashing |-> FALSE]

\* the value handed to the constructor: nothing, a Uint8Array, a hex string
\* (u8a: the bytes it stands for), the StorageKey src, a StorageEntry, an array
\* [fn, args] (isFunction: whether fn is a function), or anything else
ValueEmpty ==
  [kind |-> "empty", u8a |-> <<>>, src |-> NoKey, fn |-> NoEntry, isFunction |-> TRUE,
   args |-> <<>>]

ValueU8a(u8a) == [ValueEmpty EXCEPT !.kind = "u8a", !.u8a = u8a]

ValueString(u8a) == [ValueEmpty EXCEPT !.kind = "string", !.u8a = u8a]

ValueKey(src) == [ValueEmpty EXCEPT !.kind = "key", !.src = src]

ValueFn(fn) == [ValueEmpty EXCEPT !.kind = "fn", !.fn = fn]

ValuePair(fn, args) == [ValueEmpty EXCEPT !.kind = "pair", !.fn = fn, !.args = args]

ValuePairNoFunction(args) ==
  [ValueEmpty EXCEPT !.kind = "pair", !.isFunction = FALSE, !.args = args]

ValueOther == [ValueEmpty EXCEPT !.kind = "other"]

\* { key: fn(...args), method: fn.method, section: fn.section }
KeyOfEntry(fn, called) ==
  [ok |-> called.ok, err |-> called.err, key |-> called.key,
   method |-> fn.method, section |-> fn.section]

\* decodeStorageKey without the check of the number of args
DecodeStorageKeyNoArityCheck(value) ==
  CASE value.kind = "key" ->
         [ok |-> TRUE, err |-> "none", key |-> value.src.bytes,
          method |-> value.src.method, section |-> value.src.section]
    [] value.kind \in {"empty", "string", "u8a"} ->
         [ok |-> TRUE, err |-> "none", key |-> value.u8a, method |-> "", section |-> ""]
    [] value.kind = "fn" -> KeyOfEntry(value.fn, StorageFn(value.fn, <<>>))
    [] value.kind = "pair" ->
         IF ~value.isFunction
         THEN [ok |-> FALSE, err |-> "expectedFunction", key |-> <<>>,
               method |-> "", section |-> ""]
         ELSE KeyOfEntry(value.fn, StorageFn(value.fn, value.args))
    [] OTHER ->
         [ok |-> FALSE, err |-> "unableToConvert", key |-> <<>>,
          method |-> "", section |-> ""]

\* decodeStorageKey
DecodeStorageKey(value) ==
  CASE value.kind = "key" ->
         [ok |-> TRUE, err |-> "none", key |-> value.src.bytes,
          method |-> value.src.method, section |-> value.src.section]
    [] value.kind \in {"empty", "string", "u8a"} ->
         [ok |-> TRUE, err |-> "none", key |-> value.u8a, method |-> "", section |-> ""]
    [] value.kind = "fn" -> KeyOfEntry(value.fn, StorageFn(value.fn, <<>>))
    [] value.kind = "pair" ->
         IF ~value.isFunction
         THEN [ok |-> FALSE, err |-> "expectedFunction", key |-> <<>>,
               method |-> "", section |-> ""]
         ELSE IF /\ value.fn.meta.defined
                 /\ value.fn.meta.type.isMap
                 /\ Len(value.args) # Len(value.fn.meta.type.hashers)
         THEN [ok |-> FALSE, err |-> "expectedValues", key |-> <<>>,
               method |-> "", section |-> ""]
         ELSE KeyOfEntry(value.fn, StorageFn(value.fn, value.args))
    [] OTHER ->
         [ok |-> FALSE, err |-> "unableToConvert", key |-> <<>>,
          method |-> "", section |-> ""]

\* decodeBytes of Bytes, on the key decodeStorageKey gives: a string is taken
\* as its bytes, a Uint8Array (also one a StorageEntry returned) loses its
\* length prefix, a StorageKey is a Raw and kept as it is
DecodeBytes(value, key) ==
  IF value.kind \in {"u8a", "fn", "pair"}
  THEN DecodeBytesU8a(key)
  ELSE [ok |-> TRUE, err |-> "none", bytes |-> key]

\* getMeta
GetMeta(value) ==
  CASE value.kind = "key" -> value.src.meta
    [] value.kind \in {"fn", "pair"} -> value.fn.meta
    [] OTHER -> NoMeta

\* getType: value.meta.type of a function without meta is a TypeError
GetType(value) ==
  CASE value.kind = "key" -> [ok |-> TRUE, err |-> "none", name |-> value.src.outputType]
    [] value.kind = "fn" ->
         IF value.fn.meta.defined THEN UnwrapStorageType(value.fn.meta.type)
         ELSE [ok |-> FALSE, err |-> "typeError", name |-> ""]
    [] value.kind = "pair" /\ value.fn.meta.defined -> UnwrapStorageType(value.fn.meta.type)
    [] OTHER -> [ok |-> TRUE, err |-> "none", name |-> "Raw"]

\* new StorageKey(registry, value, override)
Constructor(value, override) ==
  LET Threw(err) == [self |-> NoKey, ok |-> FALSE, err |-> err, decode |-> NotRun]
      AfterSetMeta(set) == IF set.ok THEN set ELSE [set EXCEPT !.self = NoKey]
      WithBytes(dk, super, type) ==
        IF ~super.ok THEN Threw(super.err)
        ELSE IF ~type.ok THEN Threw(type.err)
        ELSE AfterSetMeta(
               SetMetaOn([NoKey EXCEPT !.exists = TRUE, !.bytes = super.bytes,
                                       !.outputType = type.name],
                         GetMeta(value), OrElse(override.section, dk.section),
                         OrElse(override.method, dk.method)))
      WithKey(dk) ==
        IF ~dk.ok THEN Threw(dk.err)
        ELSE WithBytes(dk, DecodeBytes(value, dk.key), GetType(value))
  IN WithKey(DecodeStorageKey(value))

(***************************************************************************)
(* The inputs of the StorageKey operations                                 *)
(***************************************************************************)
\* how many bytes at most are missing at the end of a raw key
MaxCut == 1

\* the values storage arguments are built from
ArgValues == {1, 42}

\* the descriptors of map entries whose key type is u32 (id 2), one per hasher,
\* and of a two-key map over the tuple (u32, u8) (id 4)
SingleMaps == {Meta(MapType(<<h>>, 2, 2)) : h \in AllHashers}

DoubleMap == Meta(MapType(<<"Twox64Concat", "Blake2_128">>, 4, 2))

\* every descriptor handed to setMeta: none, plain ones, maps with one hasher
\* over u32, over bool, over a type that does not resolve (id 9) and over the
\* tuple (u32, u8), maps with several
\* hashers over a tuple, over a type that is no tuple and over a tuple that is
\* too short, and a map whose value type does not resolve
Metas ==
  {NoMeta, Meta(PlainType(2)), Meta(PlainType(9))}
    \cup SingleMaps
    \cup {Meta(MapType(<<"Identity">>, 3, 2)), Meta(MapType(<<"Twox64Concat">>, 9, 2)),
          Meta(MapType(<<"Twox64Concat">>, 4, 2))}
    \cup {DoubleMap,
          Meta(MapType(<<"Identity", "Identity">>, 2, 2)),
          Meta(MapType(<<"Twox64Concat", "Twox64Concat", "Identity">>, 4, 2)),
          Meta(MapType(<<"Twox64Concat">>, 2, 9))}

Entries ==
  {[NoEntry EXCEPT !.meta = m, !.method = "account", !.section = "system"] :
     m \in SingleMaps \cup {DoubleMap, Meta(PlainType(2)), NoMeta}}

SubstrateEntries ==
  {substrate.changesTrieConfig, substrate.childStorageKeyPrefix, substrate.code,
   substrate.extrinsicIndex, substrate.heapPages}

ArgLists ==
  {<<>>} \cup {<<a>> : a \in ArgValues} \cup {<<a, 1>> : a \in ArgValues}

\* the raw keys: what the entries build, with up to MaxCut bytes missing
BuiltKeys ==
  {CallEntry(e, a).key : e \in {x \in Entries : x.meta.defined}, a \in ArgLists}

RawKeys ==
  {SubSeq(k, 1, Len(k) - c) : k \in BuiltKeys, c \in 0..MaxCut}

\* override = {}, the default, and an override of both names
NoOverride == [section |-> "", method |-> ""]

Overrides == {NoOverride, [section |-> "staking", method |-> "ledger"]}

\* every value a key is constructed from, apart from another StorageKey: the
\* raw keys as hex strings and as length-prefixed Uint8Arrays, a Uint8Array
\* shorter than its prefix says, the entries alone and with arguments, an array
\* that holds no function, and a value of no accepted kind
Values ==
  {ValueEmpty, ValueOther, ValueU8a(<<20, 58, 99>>)}
    \cup {ValueString(u8a) : u8a \in RawKeys}
    \cup {ValueU8a(CompactAddLength(u8a)) : u8a \in RawKeys}
    \cup {ValueFn(fn) : fn \in Entries \cup SubstrateEntries}
    \cup {ValuePair(fn, args) : fn \in Entries \cup {substrate.code}, args \in ArgLists}
    \cup {ValuePairNoFunction(args) : args \in ArgLists}

\* fn, isFunction, nargs and called: the names of the entry given to the
\* constructor, whether it is a function, how many args came with it, and what
\* it returned
NoKeyOp ==
  [op |-> "none", ok |-> TRUE, err |-> "none", kind |-> "none", meta |-> NoMeta,
   decode |-> NotRun, bytes |-> <<>>, method |-> "", section |-> "",
   fn |-> [method |-> "", section |-> ""], isFunction |-> TRUE, nargs |-> 0,
   called |-> <<>>]

\* new StorageKey(registry, value, override): the key it makes (no key when it
\* throws) and the record of the call
New(value, override) ==
  LET Given(dk) ==
        [NoKeyOp EXCEPT !.op = "new", !.kind = value.kind,
                        !.fn = [method |-> value.fn.method, section |-> value.fn.section],
                        !.isFunction = value.isFunction,
                        !.nargs = Len(value.args),
                        !.meta = IF value.kind \in {"fn", "pair"}
                                 THEN value.fn.meta ELSE NoMeta,
                        !.called = IF value.kind \in {"fn", "pair"} THEN dk.key ELSE <<>>]
      Made(r, dk, given) ==
        [skey |-> r.self,
         keyOp |-> IF r.ok
                   THEN [given EXCEPT !.meta = GetMeta(value), !.decode = r.decode,
                                      !.bytes = DecodeBytes(value, dk.key).bytes,
                                      !.method = OrElse(override.method, dk.method),
                                      !.section = OrElse(override.section, dk.section)]
                   ELSE [given EXCEPT !.ok = FALSE, !.err = r.err]]
      Called(dk) == Made(Constructor(value, override), dk, Given(dk))
  IN Called(DecodeStorageKey(value))

\* a StorageKey is constructed from bytes, a StorageEntry or a pair
KeyInit ==
  \E value \in Values, override \in Overrides :
     \E made \in {New(value, override)} :
        /\ skey = made.skey
        /\ keyOp = made.keyOp

\* no StorageKey, while the metadata accessors run
KeyIdle ==
  /\ skey = NoKey
  /\ keyOp = NoKeyOp

\* a StorageKey is constructed from the StorageKey held
NewFromKey ==
  \E override \in Overrides :
     /\ skey.exists
     /\ \E made \in {New(ValueKey(skey), override)} :
           /\ skey' = made.skey
           /\ keyOp' = made.keyOp
     /\ UNCHANGED nonKeyVars

\* key.setMeta(meta, section, method)
SetMeta ==
  \E meta \in Metas, extra \in Overrides :
     /\ skey.exists
     /\ \E r \in {SetMetaOn(skey, meta, extra.section, extra.method)} :
           /\ skey' = r.self
           /\ keyOp' = [NoKeyOp EXCEPT
                          !.op = "setMeta", !.ok = r.ok, !.err = r.err,
                          !.meta = meta, !.decode = r.decode, !.bytes = skey.bytes,
                          !.method = OrElse(extra.method, skey.method),
                          !.section = OrElse(extra.section, skey.section)]
           /\ UNCHANGED nonKeyVars

KeyNext ==
  \/ NewFromKey
  \/ SetMeta

\* while the StorageKey operations run, one version-14 metadata instance idles
MetaIdle ==
  /\ objs = <<NewMetadataVersioned("meta", LATEST_VERSION, Decoded(LATEST_VERSION))>>
  /\ calls = <<NoCalls>>
  /\ metaOp = NoMetaOp

(***************************************************************************)
(* GenericExtrinsicSignatureV4 (extrinsic/v4/ExtrinsicSignature.ts): the   *)
(* Struct {signer, signature, ...signed extensions} that encodes to        *)
(* nothing while its signature is empty.  Struct, Enum, Compact, Option    *)
(* and the fixed-length byte values are not part of the sources at hand:   *)
(* they follow the codec primitives of the specification.                  *)
(***************************************************************************)
\* len bytes of value b
Fill(len, b) == [i \in 1..len |-> b]

\* the codec values a field of the Struct holds
AddressId(u8a) == [type |-> "AddressId", u8a |-> u8a, number |-> 0]
AddressIndex(n) == [type |-> "AddressIndex", u8a |-> <<>>, number |-> n]
MultiSig(variant, u8a) == [type |-> variant, u8a |-> u8a, number |-> 0]
RawSig(u8a) == [type |-> "Signature", u8a |-> u8a, number |-> 0]
ImmortalEra == [type |-> "ImmortalEra", u8a |-> <<0>>, number |-> 0]
MortalEra(u8a) == [type |-> "MortalEra", u8a |-> u8a, number |-> 0]
CompactOf(n) == [type |-> "Compact", u8a |-> <<>>, number |-> n]
OptionNone == [type |-> "None", u8a |-> <<>>, number |-> 0]
OptionSome(n) == [type |-> "Some", u8a |-> <<>>, number |-> n]

\* the variants of the ExtrinsicSignature Enum and their discriminants
SigVariants == <<"Ed25519", "Sr25519", "Ecdsa">>
SigIndex(variant) == CHOOSE i \in 1..Len(SigVariants) : SigVariants[i] = variant
SigLength(variant) == IF variant = "Ecdsa" THEN 65 ELSE 64

\* toU8a() of a field
CodecToU8a(c) ==
  CASE c.type = "AddressId" -> <<0>> \o c.u8a
    [] c.type = "AddressIndex" -> <<1>> \o CompactToU8a(c.number)
    [] c.type \in {"Ed25519", "Sr25519", "Ecdsa"} -> <<SigIndex(c.type) - 1>> \o c.u8a
    [] c.type = "Signature" -> c.u8a
    [] c.type \in {"ImmortalEra", "MortalEra"} -> c.u8a
    [] c.type = "Compact" -> CompactToU8a(c.number)
    [] c.type = "None" -> <<0>>
    [] c.type = "Some" -> <<1>> \o NumberToU8a(2, c.number)

\* the bytes the compact encoding of n takes
CompactLength(n) == IF n < 64 THEN 1 ELSE IF n < 16384 THEN 2 ELSE 4

\* encodedLength of a field
CodecEncodedLength(c) ==
  CASE c.type = "AddressId" -> 1 + 32
    [] c.type = "AddressIndex" -> 1 + CompactLength(c.number)
    [] c.type \in {"Ed25519", "Sr25519", "Ecdsa"} -> 1 + SigLength(c.type)
    [] c.type = "Signature" -> 64
    [] c.type = "ImmortalEra" -> 1
    [] c.type = "MortalEra" -> 2
    [] c.type = "Compact" -> CompactLength(c.number)
    [] c.type = "None" -> 1
    [] c.type = "Some" -> 1 + 4

\* isEmpty of a fixed-length byte value: no byte is set
U8aIsEmpty(u8a) == \A i \in 1..Len(u8a) : u8a[i] = 0

\* A registry, as far as the signature depends on it: whether
\* ExtrinsicSignature is an Enum, and whether the signed extensions carry
\* an asset id.
Registries == [enumSig : BOOLEAN, assetId : BOOLEAN]

\* the fields: signer, signature, ...registry.getSignedExtensionTypes()
StructTypes(registry) ==
  <<"signer", "signature", "era", "nonce", "tip">>
    \o (IF registry.assetId THEN <<"assetId">> ELSE <<>>)

\* the value a field has when nothing was decoded for it
DefaultOf(registry, name) ==
  CASE name = "signer" -> AddressId(Fill(32, 0))
    [] name = "signature" ->
         IF registry.enumSig THEN MultiSig("Ed25519", Fill(64, 0)) ELSE RawSig(Fill(64, 0))
    [] name = "era" -> ImmortalEra
    [] name \in {"nonce", "tip"} -> CompactOf(0)
    [] name = "assetId" -> OptionNone

RECURSIVE ConcatAll(_)
ConcatAll(list) == IF list = <<>> THEN <<>> ELSE Head(list) \o ConcatAll(Tail(list))

RECURSIVE SumAll(_)
SumAll(list) == IF list = <<>> THEN 0 ELSE Head(list) + SumAll(Tail(list))

\* the values of a Struct in the order of its fields
StructToArray(struct) ==
  [i \in 1..Len(StructTypes(struct.registry)) |-> struct.fields[StructTypes(struct.registry)[i]]]

\* Struct.toU8a(): the fields' encodings, in order
StructToU8a(struct) ==
  LET Encoded(values) == ConcatAll([i \in 1..Len(values) |-> CodecToU8a(values[i])])
  IN Encoded(StructToArray(struct))

\* Struct.encodedLength: the sum of the fields' lengths
StructEncodedLength(struct) ==
  LET Total(values) == SumAll([i \in 1..Len(values) |-> CodecEncodedLength(values[i])])
  IN Total(StructToArray(struct))

\* Struct.set(name, value): the field set is fixed at construction
StructSet(struct, name, value) ==
  IF name \in DOMAIN struct.fields
  THEN [struct EXCEPT !.fields[name] = value]
  ELSE struct

\* decoding failed: the buffer is truncated or a discriminant is not declared
NoCodecValue == [ok |-> FALSE, value |-> OptionNone, used |-> 0]

CodecValue(value, used) == [ok |-> TRUE, value |-> value, used |-> used]

\* the decoding of one field from the bytes at the current offset
DecodeCodec(registry, name, u8a) ==
  LET Sized(value, used) == IF used > Len(u8a) THEN NoCodecValue ELSE CodecValue(value, used)
      AsCompact(c, lead) == Sized(IF lead = 1 THEN AddressIndex(c.length) ELSE CompactOf(c.length),
                                  lead + c.offset)
      AsVariant(variant) == Sized(MultiSig(variant, Subarray(u8a, 1, 1 + SigLength(variant))),
                                  1 + SigLength(variant))
  IN CASE u8a = <<>> -> NoCodecValue
       [] u8a # <<>> /\ name = "signer" ->
            IF u8a[1] = 0 THEN Sized(AddressId(Subarray(u8a, 1, 33)), 33)
            ELSE IF u8a[1] = 1 THEN AsCompact(CompactFromU8a(Tail(u8a)), 1)
            ELSE NoCodecValue
       [] u8a # <<>> /\ name = "signature" ->
            IF ~registry.enumSig THEN Sized(RawSig(Subarray(u8a, 0, 64)), 64)
            ELSE IF u8a[1] < Len(SigVariants) THEN AsVariant(SigVariants[u8a[1] + 1])
            ELSE NoCodecValue
       [] u8a # <<>> /\ name = "era" ->
            IF u8a[1] = 0 THEN CodecValue(ImmortalEra, 1)
            ELSE Sized(MortalEra(Subarray(u8a, 0, 2)), 2)
       [] u8a # <<>> /\ name \in {"nonce", "tip"} -> AsCompact(CompactFromU8a(u8a), 0)
       [] u8a # <<>> /\ name = "assetId" ->
            IF u8a[1] = 0 THEN CodecValue(OptionNone, 1)
            ELSE IF u8a[1] = 1 THEN Sized(OptionSome(U8aToNumber(Subarray(u8a, 1, 5))), 5)
            ELSE NoCodecValue

\* Struct decode: the fields in order, each from the offset the one before
\* it ended at; the values decoded so far are in done
RECURSIVE DecodeFields(_, _, _, _)
DecodeFields(registry, names, u8a, done) ==
  IF names = <<>>
  THEN [ok |-> TRUE, values |-> done]
  ELSE LET Following(d) ==
             IF ~d.ok
             THEN [ok |-> FALSE, values |-> done]
             ELSE DecodeFields(registry, Tail(names), Subarray(u8a, d.used, Len(u8a)),
                               Append(done, d.value))
       IN Following(DecodeCodec(registry, Head(names), u8a))

\* what the constructor is given
ValueUndefined == [kind |-> "undefined", u8a |-> <<>>, fields |-> <<>>]
ValueBytes(u8a) == [kind |-> "u8a", u8a |-> u8a, fields |-> <<>>]
ValueSig(self) == [kind |-> "sig", u8a |-> <<>>, fields |-> self.fields]

EMPTY_U8A == ValueBytes(<<>>)
FAKE_NONE == <<>>
FAKE_SOME == <<1>>

\* no GenericExtrinsicSignatureV4
NoSig ==
  [exists |-> FALSE, registry |-> [enumSig |-> FALSE, assetId |-> FALSE],
   fields |-> <<>>, fakePrefix |-> FAKE_NONE]

\* new Struct(registry, Types, value): from no bytes every field takes its
\* default, from bytes the fields are decoded, from a Struct they are copied
NewStruct(registry, value) ==
  LET names == StructTypes(registry)
      Named(values) == [name \in {names[i] : i \in 1..Len(names)} |->
                          values[CHOOSE i \in 1..Len(names) : names[i] = name]]
      Made(fields) == [ok |-> TRUE,
                       self |-> [exists |-> TRUE, registry |-> registry, fields |-> fields,
                                 fakePrefix |-> FAKE_NONE]]
      FromBytes(d) == IF d.ok THEN Made(Named(d.values)) ELSE [ok |-> FALSE, self |-> NoSig]
  IN IF value.kind = "sig"
     THEN Made([name \in {names[i] : i \in 1..Len(names)} |->
                  IF name \in DOMAIN value.fields THEN value.fields[name]
                  ELSE DefaultOf(registry, name)])
     ELSE IF value.u8a = <<>>
     THEN Made([name \in {names[i] : i \in 1..Len(names)} |-> DefaultOf(registry, name)])
     ELSE FromBytes(DecodeFields(registry, names, value.u8a, <<>>))

\* GenericExtrinsicSignatureV4.decodeExtrinsicSignature(value, isSigned = false)
DecodeExtrinsicSignature(value, isSigned) ==
  IF value.kind = "undefined" THEN EMPTY_U8A
  ELSE IF value.kind = "sig" THEN value
  ELSE IF isSigned THEN value ELSE EMPTY_U8A

\* new GenericExtrinsicSignatureV4(registry, value, { isSigned })
NewSignature(registry, value, isSigned) ==
  LET WithPrefix(made) ==
        IF made.ok
        THEN [made EXCEPT !.self.fakePrefix = IF registry.enumSig THEN FAKE_SOME ELSE FAKE_NONE]
        ELSE made
  IN WithPrefix(NewStruct(registry, DecodeExtrinsicSignature(value, isSigned)))

\* get signature: the value of the Enum, or the raw signature itself
Signature(self) == self.fields["signature"].u8a

\* get isSigned
IsSigned(self) == ~U8aIsEmpty(Signature(self))

\* get encodedLength that does not look at isSigned
EncodedLengthNotGuarded(self) == StructEncodedLength(self)

\* get encodedLength
EncodedLength(self) == IF IsSigned(self) THEN StructEncodedLength(self) ELSE 0

\* toU8a()
ToU8a(self) == IF IsSigned(self) THEN StructToU8a(self) ELSE <<>>

\* a value that is not there (an option left out, a field the payload lacks)
Undefined == [type |-> "undefined", u8a |-> <<>>, number |-> 0]

\* toAddress(registry, address): a Uint8Array is the account id, an Address is kept
ToAddress(address) == IF address.type = "u8a" THEN AddressId(address.u8a) ELSE address

\* new GenericExtrinsicPayloadV4(registry, value), as far as the signature reads it
Payload(registry, era, nonce, tip, assetId) ==
  [era |-> era, nonce |-> CompactOf(nonce), tip |-> CompactOf(tip),
   assetId |-> IF registry.assetId THEN assetId ELSE Undefined]

\* createPayload(method, options): era || IMMORTAL_ERA, tip || 0
CreatePayload(registry, options) ==
  Payload(registry,
          IF options.era = Undefined THEN ImmortalEra ELSE options.era,
          options.nonce,
          IF options.tip = Undefined THEN 0 ELSE options.tip.number,
          options.assetId)

\* _injectSignature(signer, signature, payload)
InjectSignature(self, signer, signature, payload) ==
  LET era == StructSet(self, "era", payload.era)
      nonce == StructSet(era, "nonce", payload.nonce)
      withSigner == StructSet(nonce, "signer", signer)
      withSignature == StructSet(withSigner, "signature", signature)
      tip == StructSet(withSignature, "tip", payload.tip)
  IN StructSet(tip, "assetId", payload.assetId)

\* Inputs of the signature operations.
Alice == [type |-> "u8a", u8a |-> Fill(32, 1), number |-> 0]

Addresses == {Alice, AddressIndex(5), AddressIndex(300)}

Eras == {ImmortalEra, MortalEra(<<21, 3>>)}

Nonces == {0, 70}

Tips == {0, 20000}

AssetIds == {OptionNone, OptionSome(7)}

\* the signatures a keypair makes, as bytes (behind the variant where the
\* registry has the Enum)
PairSignatures(registry) ==
  IF registry.enumSig
  THEN {<<1>> \o Fill(64, 9), <<2>> \o Fill(65, 8)}
  ELSE {Fill(64, 9)}

\* the signatures addSignature is given: a pair's, one of zeroes only, and
\* one whose variant the Enum does not have
GivenSignatures(registry) ==
  PairSignatures(registry)
    \cup (IF registry.enumSig THEN {<<0>> \o Fill(64, 0), <<7>> \o Fill(64, 9)}
          ELSE {Fill(64, 0)})

Options ==
  [era : {Undefined, MortalEra(<<21, 3>>)}, nonce : Nonces,
   tip : {Undefined, CompactOf(20000)}, assetId : {OptionSome(7)}]

\* signatures as they are on the wire: what toU8a() of a signed value gave
WireSignatures(registry) ==
  LET Blank == NewStruct(registry, EMPTY_U8A).self
  IN {StructToU8a(InjectSignature(Blank, ToAddress(address),
                                  DecodeCodec(registry, "signature", signature).value,
                                  Payload(registry, era, 70, 0, OptionSome(7)))) :
        address \in {Alice, AddressIndex(300)}, signature \in PairSignatures(registry),
        era \in Eras}

\* the bytes a constructor is given: none, wire signatures (one with bytes
\* behind it, one cut short), and bytes that are no signature
RawSignatures(registry) ==
  {<<>>, <<1, 2, 3>>}
    \cup WireSignatures(registry)
    \cup {w \o <<4, 0>> : w \in WireSignatures(registry)}
    \cup {Subarray(w, 0, 40) : w \in WireSignatures(registry)}

NoSigOp ==
  [op |-> "none", ok |-> TRUE, kind |-> "undefined", isSigned |-> FALSE, u8a |-> <<>>]

SigOp(op, ok, value, isSigned) ==
  [op |-> op, ok |-> ok, kind |-> value.kind, isSigned |-> isSigned, u8a |-> value.u8a]

\* the first GenericExtrinsicSignatureV4 is constructed; a constructor that
\* throws leaves no object
SigInit ==
  \E registry \in Registries, isSigned \in BOOLEAN :
     \E value \in {ValueUndefined} \cup {ValueBytes(u8a) : u8a \in RawSignatures(registry)} :
        \E made \in {NewSignature(registry, value, isSigned)} :
           /\ xsig = [made.self EXCEPT !.registry = registry]
           /\ sigOp = SigOp("new", made.ok, value, isSigned)

\* no GenericExtrinsicSignatureV4, while the other components run
SigIdle ==
  /\ xsig = NoSig
  /\ sigOp = NoSigOp

\* a GenericExtrinsicSignatureV4 is constructed, from bytes or from the one
\* held; a constructor that throws leaves the one held
NewSig ==
  \E isSigned \in BOOLEAN :
     \E value \in {ValueUndefined}
                    \cup {ValueBytes(u8a) : u8a \in RawSignatures(xsig.registry)}
                    \cup (IF xsig.exists THEN {ValueSig(xsig)} ELSE {}) :
        \E made \in {NewSignature(xsig.registry, value, isSigned)} :
           /\ xsig' = IF made.ok THEN made.self ELSE xsig
           /\ sigOp' = SigOp("new", made.ok, value, isSigned)
           /\ UNCHANGED nonSigVars

\* addSignature(signer, signature, payload): createType of a signature whose
\* variant is not declared throws before anything is set
AddSignature ==
  \E address \in Addresses, signature \in GivenSignatures(xsig.registry),
     era \in Eras, nonce \in Nonces, tip \in Tips, assetId \in AssetIds :
     /\ xsig.exists
     /\ \E created \in {DecodeCodec(xsig.registry, "signature", signature)} :
           /\ xsig' = IF created.ok
                      THEN InjectSignature(xsig, ToAddress(address), created.value,
                                           Payload(xsig.registry, era, nonce, tip, assetId))
                      ELSE xsig
           /\ sigOp' = SigOp("addSignature", created.ok, ValueBytes(signature), FALSE)
     /\ UNCHANGED nonSigVars

\* sign(method, account, options): the account must have an address
Sign ==
  \E account \in {Undefined, Alice}, signature \in PairSignatures(xsig.registry),
     options \in Options :
     /\ xsig.exists
     /\ xsig' = IF account = Undefined
                THEN xsig
                ELSE InjectSignature(xsig, ToAddress(account),
                                     DecodeCodec(xsig.registry, "signature", signature).value,
                                     CreatePayload(xsig.registry, options))
     /\ sigOp' = SigOp("sign", account # Undefined, ValueBytes(signature), FALSE)
     /\ UNCHANGED nonSigVars

\* signFake(method, address, options): the fake prefix and 64 bytes of 0x42
SignFake ==
  \E address \in Addresses \cup {Undefined}, options \in Options :
     /\ xsig.exists
     /\ \E signature \in {xsig.fakePrefix \o Fill(64, 66)} :
           /\ xsig' = IF address = Undefined
                      THEN xsig
                      ELSE InjectSignature(xsig, ToAddress(address),
                                           DecodeCodec(xsig.registry, "signature", signature).value,
                                           CreatePayload(xsig.registry, options))
           /\ sigOp' = SigOp("signFake", address # Undefined, ValueBytes(signature), FALSE)
     /\ UNCHANGED nonSigVars

SigNext ==
  \/ NewSig
  \/ AddSignature
  \/ Sign
  \/ SignFake

(***************************************************************************)
(* _erasRewards (api-derive staking, src/unnamed/part_001): the rewards of *)
(* a list of eras, from the derive cache or from a multi query of          *)
(* staking.erasValidatorReward.  deriveCache and filterEras are not part   *)
(* of the sources at hand: a key-value store, and the eras no entry of a   *)
(* list carries.                                                           *)
(***************************************************************************)
\* the longest list of eras a call is given
MaxEras == 2
\* the most queries in flight
MaxQueries == 1

\* the eras a call asks for
EraIndexes == {1, 2}

\* the lists of eras of a call, the empty one and those with an era twice included
EraLists == UNION {[1..n -> EraIndexes] : n \in 0..MaxEras}

CACHE_KEY == "eraRewards"

\* `${CACHE_KEY}-${era.toString()}`
CacheKey(era) == <<CACHE_KEY, era>>

\* deriveCache.get(key): undefined when nothing is stored under the key
CacheGet(cache, key) ==
  IF key \in DOMAIN cache
  THEN [defined |-> TRUE, era |-> cache[key].era, eraReward |-> cache[key].eraReward]
  ELSE [defined |-> FALSE, era |-> 0, eraReward |-> 0]

\* deriveCache.set(key, value)
CacheSet(cache, key, value) ==
  [k \in DOMAIN cache \cup {key} |->
     IF k = key THEN [era |-> value.era, eraReward |-> value.eraReward] ELSE cache[k]]

\* Option<Balance>.unwrapOrDefault()
UnwrapOrDefault(opt) == IF opt.isSome THEN opt.value ELSE 0

\* list.filter(Boolean) of the values got from the cache
RECURSIVE FilterDefined(_)
FilterDefined(list) ==
  IF list = <<>> THEN <<>>
  ELSE IF Head(list).defined THEN <<Head(list)>> \o FilterDefined(Tail(list))
  ELSE FilterDefined(Tail(list))

\* filterEras(eras, list): the eras that no entry of the list carries
RECURSIVE FilterEras(_, _)
FilterEras(eras, list) ==
  IF eras = <<>> THEN <<>>
  ELSE IF \E i \in 1..Len(list) : list[i].era = Head(eras)
  THEN FilterEras(Tail(eras), list)
  ELSE <<Head(eras)>> \o FilterEras(Tail(eras), list)

\* list.find((entry) => era.eq(entry.era)): the first such entry, or undefined
Find(list, era) ==
  IF \E i \in 1..Len(list) : list[i].era = era
  THEN list[CHOOSE i \in 1..Len(list) :
              /\ list[i].era = era
              /\ \A j \in 1..(i - 1) : list[j].era # era]
  ELSE [defined |-> FALSE, era |-> 0, eraReward |-> 0]

\* mapRewards(eras, optRewards)
MapRewards(eras, optRewards) ==
  [index \in 1..Len(eras) |->
     [defined |-> TRUE, era |-> eras[index],
      eraReward |-> UnwrapOrDefault(optRewards[index])]]

\* the cached entries where withActive does not keep the cache aside
CachedAlwaysRead(cache, eras, withActive) ==
  FilterDefined([i \in 1..Len(eras) |-> CacheGet(cache, CacheKey(eras[i]))])

\* const cached = withActive ? [] : eras.map(deriveCache.get).filter(!!value)
Cached(cache, eras, withActive) ==
  IF withActive THEN <<>>
  ELSE FilterDefined([i \in 1..Len(eras) |-> CacheGet(cache, CacheKey(eras[i]))])

\* the keys the call reads from the cache
CacheReads(eras, withActive) ==
  IF withActive THEN {} ELSE {CacheKey(eras[i]) : i \in 1..Len(eras)}

\* query.forEach((q) => deriveCache.set(key of q.era, q))
RECURSIVE SetAll(_, _)
SetAll(cache, query) ==
  IF query = <<>> THEN cache
  ELSE SetAll(CacheSet(cache, CacheKey(Head(query).era), Head(query)), Tail(query))

\* the emitted list, looked up in the query's results only
CombineQueryOnly(eras, cached, query) ==
  [i \in 1..Len(eras) |-> Find(query, eras[i])]

\* eras.map((era) => cached.find(...) || query.find(...))
Combine(eras, cached, query) ==
  [i \in 1..Len(eras) |->
     IF Find(cached, eras[i]).defined THEN Find(cached, eras[i]) ELSE Find(query, eras[i])]

\* the body of _erasRewards up to its return: of([]), of(cached), or the
\* multi query of the remaining eras
ErasRewardsBody(cache, eras, withActive) ==
  LET Of(list, reads) ==
        [queried |-> FALSE, out |-> list, cached |-> <<>>, remaining |-> <<>>,
         reads |-> reads]
      Multi(cached, remaining) ==
        [queried |-> TRUE, out |-> <<>>, cached |-> cached, remaining |-> remaining,
         reads |-> CacheReads(eras, withActive)]
      Rest(cached, remaining) ==
        IF remaining = <<>>
        THEN Of(cached, CacheReads(eras, withActive))
        ELSE Multi(cached, remaining)
      WithCached(cached) == Rest(cached, FilterEras(eras, cached))
  IN IF eras = <<>>
     THEN Of(<<>>, {})
     ELSE WithCached(Cached(cache, eras, withActive))

\* what the chain holds for staking.erasValidatorReward
OptRewards == {[isSome |-> FALSE, value |-> 0], [isSome |-> TRUE, value |-> 5]}

NoErasOp ==
  [op |-> "none", eras |-> <<>>, withActive |-> FALSE, reads |-> {}, queried |-> FALSE,
   remaining |-> <<>>, emitted |-> FALSE, out |-> <<>>]

ErasInit ==
  /\ deriveCache = <<>>
  /\ queries = {}
  /\ erasOp = NoErasOp

\* no call of _erasRewards, while the other components run
ErasIdle ==
  /\ deriveCache = <<>>
  /\ queries = {}
  /\ erasOp = NoErasOp

\* _erasRewards(eras, withActive) is called and subscribed to: up to the
\* value it emits at once, or the query it sends
ErasRewards ==
  \E eras \in EraLists, withActive \in BOOLEAN :
     \E call \in {ErasRewardsBody(deriveCache, eras, withActive)} :
        /\ call.queried => Cardinality(queries) < MaxQueries
        /\ queries' = IF call.queried
                      THEN queries \cup {[eras |-> eras, withActive |-> withActive,
                                          cached |-> call.cached,
                                          remaining |-> call.remaining]}
                      ELSE queries
        /\ erasOp' = [op |-> "call", eras |-> eras, withActive |-> withActive,
                      reads |-> call.reads, queried |-> call.queried,
                      remaining |-> call.remaining, emitted |-> ~call.queried,
                      out |-> call.out]
        /\ UNCHANGED deriveCache
        /\ UNCHANGED nonErasVars

\* the multi query of a call answers with the rewards the chain holds: the
\* map callback stores them (unless withActive) and emits the list
Answer ==
  \E q \in queries :
     \E chain \in [{q.remaining[i] : i \in 1..Len(q.remaining)} -> OptRewards] :
        \E query \in {MapRewards(q.remaining,
                                 [i \in 1..Len(q.remaining) |-> chain[q.remaining[i]]])} :
           /\ deriveCache' = IF q.withActive THEN deriveCache ELSE SetAll(deriveCache, query)
           /\ erasOp' = [op |-> "answer", eras |-> q.eras, withActive |-> q.withActive,
                         reads |-> {}, queried |-> FALSE, remaining |-> q.remaining,
                         emitted |-> TRUE, out |-> Combine(q.eras, q.cached, query)]
           /\ UNCHANGED queries
           /\ UNCHANGED nonErasVars

\* the subscriber of a call unsubscribes: its query ends
Unsubscribe ==
  \E q \in queries :
     /\ queries' = queries \ {q}
     /\ erasOp' = [NoErasOp EXCEPT !.op = "unsubscribe"]
     /\ UNCHANGED deriveCache
     /\ UNCHANGED nonErasVars

ErasNext ==
  \/ ErasRewards
  \/ Answer
  \/ Unsubscribe

(***************************************************************************)
(* compareRationals (src/unnamed/part_002): the comparison of two          *)
(* rationals by their continued fractions, one loop iteration per step.    *)
(***************************************************************************)
\* the largest numerator and denominator a call is given
MaxNum == 6

\* no call of compareRationals was made yet
NoRat ==
  [pc |-> "idle", n1 |-> 0, d1 |-> 1, n2 |-> 0, d2 |-> 1, result |-> FALSE,
   steps |-> 0, given |-> [n1 |-> 0, d1 |-> 1, n2 |-> 0, d2 |-> 1]]

\* return value: the loop is left
RatReturn(s, value) == [s EXCEPT !.pc = "done", !.result = value, !.steps = @ + 1]

\* one iteration that checks the remainders in the other order
CompareStepRemaindersExchanged(s) ==
  LET q1 == s.n1 \div s.d1
      q2 == s.n2 \div s.d2
      r1 == s.n1 % s.d1
      r2 == s.n2 % s.d2
  IN IF q1 < q2 THEN RatReturn(s, TRUE)
     ELSE IF q2 < q1 THEN RatReturn(s, FALSE)
     ELSE IF r1 = 0 THEN RatReturn(s, TRUE)
     ELSE IF r2 = 0 THEN RatReturn(s, FALSE)
     ELSE [s EXCEPT !.n1 = s.d2, !.n2 = s.d1, !.d1 = r2, !.d2 = r1, !.steps = @ + 1]

\* one iteration of the while (true) loop of compareRationals
CompareStep(s) ==
  LET q1 == s.n1 \div s.d1
      q2 == s.n2 \div s.d2
      r1 == s.n1 % s.d1
      r2 == s.n2 % s.d2
  IN IF q1 < q2 THEN RatReturn(s, TRUE)
     ELSE IF q2 < q1 THEN RatReturn(s, FALSE)
     ELSE IF r2 = 0 THEN RatReturn(s, FALSE)
     ELSE IF r1 = 0 THEN RatReturn(s, TRUE)
     ELSE [s EXCEPT !.n1 = s.d2, !.n2 = s.d1, !.d1 = r2, !.d2 = r1, !.steps = @ + 1]

RatInit == rat = NoRat

\* no call of compareRationals, while the other components run
RatIdle == rat = NoRat

\* compareRationals(n1, d1, n2, d2) is called: the loop is entered (the locals
\* belong to one call, so one call is followed from its start to its return)
CompareRationals ==
  \E n1 \in 0..MaxNum, n2 \in 0..MaxNum, d1 \in 1..MaxNum, d2 \in 1..MaxNum :
     /\ rat.pc = "idle"
     /\ rat' = [pc |-> "loop", n1 |-> n1, d1 |-> d1, n2 |-> n2, d2 |-> d2,
                result |-> FALSE, steps |-> 0,
                given |-> [n1 |-> n1, d1 |-> d1, n2 |-> n2, d2 |-> d2]]
     /\ UNCHANGED nonRatVars

\* the body of the loop runs once
Iterate ==
  /\ rat.pc = "loop"
  /\ rat' = CompareStep(rat)
  /\ UNCHANGED nonRatVars

RatNext ==
  \/ CompareRationals
  \/ Iterate

InitKey == MetaIdle /\ KeyInit /\ SigIdle /\ ErasIdle /\ RatIdle

SpecKey == InitKey /\ [][KeyNext]_vars

InitMeta == MetaInit /\ KeyIdle /\ SigIdle /\ ErasIdle /\ RatIdle

SpecMeta == InitMeta /\ [][MetaNext]_vars

InitSig == MetaIdle /\ KeyIdle /\ SigInit /\ ErasIdle /\ RatIdle

SpecSig == InitSig /\ [][SigNext]_vars

InitEras == MetaIdle /\ KeyIdle /\ SigIdle /\ ErasInit /\ RatIdle

SpecEras == InitEras /\ [][ErasNext]_vars

InitRat == MetaIdle /\ KeyIdle /\ SigIdle /\ ErasIdle /\ RatInit

\* the loop of compareRationals is synchronous code: an iteration that can run, runs
SpecRat == InitRat /\ [][RatNext]_vars /\ WF_vars(Iterate)

(***************************************************************************)
(* Properties of MetadataVersioned, checked under SpecMeta                 *)
(***************************************************************************)
\* the instance the last accessor call was made on
Receiver == objs[metaOp.inst]

NumberedOps == {"asV9", "asV10", "asV11", "asV12", "asV13", "asV14"}

\* the getter asVN evaluated on an instance
AsVN(self, n) == IF n = 9 THEN AsV9Get(self) ELSE GetVersion(self, n)

\* the targets from the source version v up to target t, in migration order
PathTo(v, t) ==
  IF t = Latest
  THEN [k \in 1..(LATEST_VERSION - v + 1) |->
          IF v + k > LATEST_VERSION THEN Latest ELSE v + k]
  ELSE [k \in 1..(t - v) |-> v + k]

\* the one-step transforms of a path applied in order to a value
RECURSIVE Compose(_, _, _)
Compose(value, path, v) ==
  IF path = <<>> THEN value
  ELSE Compose(FromPrev(Head(path), value, v), Tail(path), v)

\* C1: on an instance of source version V every accessor asVN with N < V fails
\* with the version-downgrade error and returns nothing, whatever accessor calls
\* were made before; the failed call leaves the cache as it was.
C1_DowngradeFails ==
  /\ \A i \in 1..Len(objs) : \A n \in FirstVersion..LATEST_VERSION :
        n < objs[i].version =>
           /\ ~AsVN(objs[i], n).ok
           /\ AsVN(objs[i], n).err = "downgrade"
  /\ (metaOp.op \in NumberedOps /\ metaOp.target < Receiver.version) =>
        /\ ~metaOp.ok
        /\ metaOp.err = "downgrade"
        /\ metaOp.val = NoValue
        /\ Receiver.converted = metaOp.pre

C1_Witness ==
  /\ metaOp.op = "asV10"
  /\ Receiver.version = 12
  /\ ~metaOp.ok
  /\ Has(metaOp.pre, 13)

\* C2: the accessor asVN with N equal to the source version returns the embedded
\* value itself, invokes no transform and adds nothing to the migration cache.
C2_SourceVersionDirect ==
  (metaOp.op \in NumberedOps /\ metaOp.target = Receiver.version) =>
     /\ metaOp.ok
     /\ metaOp.val = Receiver.metadata
     /\ metaOp.log = <<>>
     /\ Receiver.converted = metaOp.pre
     /\ ~Has(Receiver.converted, metaOp.target)

C2_Witness ==
  /\ metaOp.op = "asV12"
  /\ Receiver.version = 12
  /\ metaOp.ok
  /\ metaOp.val = Decoded(12)

\* C3: over any sequence of accessor calls on one instance each one-step
\* transform is invoked at most once, and a request for a target that is already
\* cached invokes nothing, leaves the cache alone and (for asVN and asLatest)
\* returns the cached value.
C3_TransformAtMostOnce ==
  /\ \A i \in 1..Len(objs) : \A k \in DOMAIN calls[i] : calls[i][k] <= 1
  /\ (metaOp.op # "none" /\ Has(metaOp.pre, metaOp.target)) =>
        /\ metaOp.log = <<>>
        /\ Receiver.converted = metaOp.pre
        /\ (metaOp.op \in NumberedOps \cup {"asLatest"} =>
              metaOp.val = metaOp.pre[metaOp.target])

C3_Witness ==
  /\ metaOp.op = "asV12"
  /\ Receiver.version < 12
  /\ Has(metaOp.pre, 12)
  /\ metaOp.log = <<>>
  /\ calls[metaOp.inst][12] = 1

\* C4: for a source version V and a target T above it (or latest), what the
\* accessor returns and what the cache holds for T is the composition of the
\* one-step transforms from V up to T applied to the embedded value, whatever
\* accessors were called before and in whatever order.
C4_ChainIndependentOfOrder ==
  /\ \A i \in 1..Len(objs) : \A t \in MetaVersions :
        Has(objs[i].converted, t) =>
           objs[i].converted[t] =
              Compose(objs[i].metadata, PathTo(objs[i].version, t), objs[i].version)
  /\ (/\ metaOp.op \in NumberedOps \cup {"asLatest"}
      /\ metaOp.ok
      /\ (metaOp.target = Latest \/ metaOp.target > Receiver.version)) =>
        metaOp.val =
           Compose(Receiver.metadata, PathTo(Receiver.version, metaOp.target),
                   Receiver.version)

C4_Witness ==
  /\ metaOp.op = "asLatest"
  /\ Receiver.version = 9
  /\ metaOp.pre = EmptyConverted
  /\ Len(metaOp.log) = 6
  /\ Len(metaOp.val) = 7

\* C5: asLatest always returns the result of toLatest applied to asV14, never
\* the embedded value, also when the source version is 14; the first asLatest
\* on a version-14 instance invokes toLatest exactly once (and nothing else).
C5_LatestAlwaysNormalized ==
  /\ metaOp.op = "asLatest" =>
        /\ metaOp.ok
        /\ metaOp.val # Receiver.metadata
        /\ metaOp.val[Len(metaOp.val)].fn = "toLatest"
        /\ metaOp.val = Receiver.converted[Latest]
        /\ ~Has(metaOp.pre, Latest) => Count(metaOp.log, "toLatest") = 1
        /\ (Receiver.version = LATEST_VERSION /\ ~Has(metaOp.pre, Latest)) =>
              metaOp.log = <<[fn |-> "toLatest", mv |-> LATEST_VERSION,
                              input |-> Receiver.metadata]>>
  /\ \A i \in 1..Len(objs) :
        Has(objs[i].converted, Latest) => calls[i][Latest] = 1

C5_Witness ==
  /\ metaOp.op = "asLatest"
  /\ Receiver.version = 14
  /\ metaOp.pre = EmptyConverted
  /\ Len(metaOp.log) = 1
  /\ metaOp.val = toLatest(Decoded(14), 14)

\* C6: toJSON materializes asLatest before it serializes: the cache holds the
\* 'latest' entry when super.toJSON() starts, and the same entry when toJSON
\* returns.
C6_ToJSONMaterializesLatest ==
  metaOp.op = "toJSON" =>
     /\ metaOp.ok
     /\ Has(metaOp.snap, Latest)
     /\ Has(Receiver.converted, Latest)
     /\ Receiver.converted[Latest] = metaOp.snap[Latest]

C6_Witness ==
  /\ metaOp.op = "toJSON"
  /\ ~Has(metaOp.pre, Latest)
  /\ Has(metaOp.snap, Latest)
  /\ Len(metaOp.log) > 1

\* C14: an accessor call never changes the version, the magicNumber or the
\* embedded schema of an instance, and never removes a cache entry or replaces
\* it by another value: the cache only grows.
C14_OnlyCacheGrows ==
  [][\A i \in 1..Len(objs) :
        /\ objs'[i].version = objs[i].version
        /\ objs'[i].magicNumber = objs[i].magicNumber
        /\ objs'[i].metadata = objs[i].metadata
        /\ \A k \in MetaVersions :
              Has(objs[i].converted, k) => objs'[i].converted[k] = objs[i].converted[k]]_vars

C14_Witness ==
  /\ metaOp.op = "asV13"
  /\ Receiver.version = 10
  /\ Receiver.metadata = Decoded(10)
  /\ Has(metaOp.pre, 11)
  /\ ~Has(metaOp.pre, 12)
  /\ Len(metaOp.log) = 2
  /\ Receiver.converted[11] = metaOp.pre[11]
  /\ Has(Receiver.converted, 13)

\* C15: asCallsOnly makes a new instance, not the receiver, from the receiver's
\* asLatest: it has the receiver's magicNumber, the source version 14 whatever
\* the receiver's, and an empty cache of its own; and an accessor call changes
\* the cache of no instance but the one it is called on.
C15_CallsOnlyIsSeparate ==
  [][/\ metaOp'.op = "asCallsOnly" =>
           /\ metaOp'.ok
           /\ metaOp'.made = Len(objs) + 1
           /\ metaOp'.made # metaOp'.inst
           /\ Len(objs') = Len(objs) + 1
           /\ objs'[metaOp'.made].magicNumber = objs[metaOp'.inst].magicNumber
           /\ objs'[metaOp'.made].version = LATEST_VERSION
           /\ objs'[metaOp'.made].converted = EmptyConverted
           /\ objs'[metaOp'.made].metadata =
                 toCallsOnly(objs'[metaOp'.inst].converted[Latest])
     /\ \A i \in 1..Len(objs) :
           i # metaOp'.inst => objs'[i] = objs[i]]_vars

C15_Witness ==
  /\ Len(objs) = 2
  /\ metaOp.op = "asV14"
  /\ metaOp.inst = 1
  /\ objs[1].version = 9
  /\ Has(objs[1].converted, Latest)
  /\ Len(metaOp.log) = 0
  /\ objs[2].version = LATEST_VERSION
  /\ objs[2].metadata = toCallsOnly(objs[1].converted[Latest])
  /\ objs[2].converted = EmptyConverted

\* C17: the numbered keys of the cache of an instance of source version V are
\* a range V+1..k: no key is V or below, a key N comes with every key between V
\* and N, and 'latest' comes with 14 unless V is 14.
C17_CacheIsContiguous ==
  \A i \in 1..Len(objs) :
     /\ \A n \in FirstVersion..LATEST_VERSION :
           Has(objs[i].converted, n) =>
              /\ n > objs[i].version
              /\ \A m \in (objs[i].version + 1)..(n - 1) : Has(objs[i].converted, m)
     /\ Has(objs[i].converted, Latest) =>
           (Has(objs[i].converted, LATEST_VERSION) \/ objs[i].version = LATEST_VERSION)

C17_Witness ==
  /\ metaOp.op = "asV12"
  /\ Receiver.version = 10
  /\ metaOp.pre = EmptyConverted
  /\ Has(Receiver.converted, 11)
  /\ Has(Receiver.converted, 12)
  /\ ~Has(Receiver.converted, 13)
  /\ ~Has(Receiver.converted, Latest)

\* C18: every one-step transform is invoked with the source version of the
\* instance as its version argument, at every step of the chain, also when its
\* input is an intermediate value of a later version.
C18_TransformGetsSourceVersion ==
  /\ \A j \in 1..Len(metaOp.log) : metaOp.log[j].mv = Receiver.version
  /\ \A i \in 1..Len(objs) : \A t \in MetaVersions :
        Has(objs[i].converted, t) =>
           \A j \in (Len(objs[i].metadata) + 1)..Len(objs[i].converted[t]) :
              objs[i].converted[t][j].mv = objs[i].version

C18_Witness ==
  /\ metaOp.op = "asV12"
  /\ Receiver.version = 9
  /\ Len(metaOp.log) = 3
  /\ metaOp.log[3].fn = "toV12"
  /\ metaOp.log[3].input = toV11(toV10(Decoded(9), 9), 9)
  /\ metaOp.log[3].mv = 9

(***************************************************************************)
(* Properties of StorageKey, checked under SpecKey                         *)
(***************************************************************************)
\* the last operation returned and decoded the arguments of a map descriptor
DecodedMap ==
  /\ keyOp.ok
  /\ keyOp.decode.ran
  /\ keyOp.decode.ok
  /\ keyOp.meta.defined
  /\ keyOp.meta.type.isMap

\* the key type hasher i of a map type applies to
KeyTypeAt(type, i) ==
  IF Len(type.hashers) = 1 THEN type.key ELSE SiTypes[type.key].tuple[i]

\* the hashers after whose hash the encoded argument follows, with the length
\* of that hash
ConcatHashLen(hasher) ==
  CASE hasher = "Identity" -> 0
    [] hasher = "Twox64Concat" -> 8
    [] hasher = "Blake2_128Concat" -> 16

\* the hashers that keep nothing of the argument, with the length of the hash
OpaqueHashLen(hasher) ==
  CASE hasher \in {"Twox128", "Blake2_128"} -> 16
    [] hasher \in {"Twox256", "Blake2_256"} -> 32

U32Arg(n) == [type |-> "u32", u8a |-> <<n, 0, 0, 0>>]

\* C7: when the argument decoding fails while a StorageKey is constructed or
\* given a descriptor, no error escapes, the key's argument list is the empty
\* list, and the key has the bytes, the method and the section it should have.
C7_DecodeFailureGivesEmptyArgs ==
  (keyOp.decode.ran /\ ~keyOp.decode.ok) =>
     /\ keyOp.ok
     /\ skey.hasArgs
     /\ skey.args = <<>>
     /\ skey.bytes = keyOp.bytes
     /\ skey.method = keyOp.method
     /\ skey.section = keyOp.section

C9_DecodableHasher ==
  /\ DecodedMap =>
        /\ skey.args = keyOp.decode.args
        /\ Len(keyOp.decode.args) = Len(keyOp.meta.type.hashers)
        /\ keyOp.decode.offsets[1] = 32
        /\ \A i \in 1..Len(keyOp.meta.type.hashers) :
              keyOp.meta.type.hashers[i] \in {"Identity", "Twox64Concat", "Blake2_128Concat"} =>
                 LET from == keyOp.decode.offsets[i] + ConcatHashLen(keyOp.meta.type.hashers[i])
                     want == CreateType(KeyTypeAt(keyOp.meta.type, i),
                                        SubSeq(skey.bytes, from + 1, Len(skey.bytes)))
                 IN /\ want.ok
                    /\ keyOp.decode.args[i] = want.codec
                    /\ keyOp.decode.offsets[i + 1] = from + Len(want.codec.u8a)
  /\ \A n \in ArgValues :
        (/\ keyOp.op \in {"new", "setMeta"}
         /\ keyOp.ok
         /\ keyOp.meta = Meta(MapType(<<"Twox64Concat">>, 2, 2))
         /\ skey.bytes = CallEntry([meta |-> keyOp.meta, method |-> "account",
                                    section |-> "system"], <<n>>).key) =>
           /\ skey.args = <<U32Arg(n)>>
           /\ U8aToNumber(skey.args[1].u8a) = n

C9_Witness ==
  /\ keyOp.op = "setMeta"
  /\ keyOp.ok
  /\ keyOp.meta = Meta(MapType(<<"Twox64Concat">>, 2, 2))
  /\ skey.args = <<U32Arg(42)>>
  /\ keyOp.decode.offsets = <<32, 44>>
  /\ SubSeq(skey.bytes, 41, 44) = <<42, 0, 0, 0>>

\* C10: in a decoding that succeeds, the argument of a non-decodable hasher is
\* a Raw of exactly the hasher's hash length (16 or 32 bytes), the bytes at the
\* current offset, and the offset advances by the hash length only.
C10_OpaqueHasher ==
  DecodedMap =>
     \A i \in 1..Len(keyOp.meta.type.hashers) :
        keyOp.meta.type.hashers[i] \in {"Twox128", "Blake2_128", "Twox256", "Blake2_256"} =>
           LET hashLen == OpaqueHashLen(keyOp.meta.type.hashers[i])
               offset == keyOp.decode.offsets[i]
           IN /\ keyOp.decode.args[i].type = "Raw"
              /\ Len(keyOp.decode.args[i].u8a) = hashLen
              /\ offset + hashLen <= Len(skey.bytes)
              /\ keyOp.decode.args[i].u8a = SubSeq(skey.bytes, offset + 1, offset + hashLen)
              /\ keyOp.decode.offsets[i + 1] = offset + hashLen

\* the expected [hash length, decodable] of each hasher kind
HasherTable ==
  [h \in {"Identity", "Twox64Concat", "Blake2_128Concat", "Twox128", "Blake2_128",
          "Twox256", "Blake2_256"} |->
     CASE h = "Identity" -> <<0, TRUE>>
       [] h = "Twox64Concat" -> <<8, TRUE>>
       [] h = "Blake2_128Concat" -> <<16, TRUE>>
       [] h \in {"Twox128", "Blake2_128"} -> <<16, FALSE>>
       [] h \in {"Twox256", "Blake2_256"} -> <<32, FALSE>>]

RawArg(u8a) == [type |-> "Raw", u8a |-> u8a]

\* C11: a successful decode of a map gives one argument per hasher, in hasher
\* order: with several hashers the key type is a tuple and argument i is what
\* hasher i makes of tuple element i at the offset the arguments before it left;
\* with one hasher the element is the key type itself, also when that is a tuple.
C11_OneArgumentPerHasher ==
  /\ DecodedMap =>
        LET type == keyOp.meta.type
            hashers == type.hashers
        IN /\ skey.args = keyOp.decode.args
           /\ Len(skey.args) = Len(hashers)
           /\ Len(keyOp.decode.offsets) = Len(hashers) + 1
           /\ Len(hashers) > 1 =>
                 /\ Resolves(type.key)
                 /\ SiTypes[type.key].tuple # <<>>
           /\ \A i \in 1..Len(hashers) :
                 LET el == IF Len(hashers) = 1 THEN type.key
                           ELSE IF i <= Len(SiTypes[type.key].tuple)
                           THEN SiTypes[type.key].tuple[i] ELSE 0
                     step == DecodeStep(skey.bytes, keyOp.decode.offsets[i], hashers[i], el)
                 IN /\ step.ok
                    /\ skey.args[i] = step.codec
                    /\ keyOp.decode.offsets[i + 1] = step.offset
  /\ \A n \in ArgValues :
        (/\ keyOp.op \in {"new", "setMeta"}
         /\ keyOp.ok
         /\ keyOp.meta = DoubleMap
         /\ skey.bytes = CallEntry([meta |-> DoubleMap, method |-> "account",
                                    section |-> "system"], <<n, 1>>).key) =>
           /\ Len(skey.args) = 2
           /\ skey.args[1] = U32Arg(n)
           /\ skey.args[2] = RawArg(SubSeq(skey.bytes, 45, 60))
  /\ (/\ keyOp.op \in {"new", "setMeta"}
      /\ keyOp.ok
      /\ keyOp.meta = Meta(MapType(<<"Twox64Concat">>, 4, 2))
      /\ Len(skey.bytes) >= 45) =>
        skey.args = <<[type |-> "(u32,u8)", u8a |-> SubSeq(skey.bytes, 41, 45)]>>

C11_Witness ==
  /\ keyOp.op = "setMeta"
  /\ keyOp.ok
  /\ keyOp.meta = DoubleMap
  /\ Len(skey.bytes) = 60
  /\ keyOp.decode.offsets = <<32, 44, 60>>
  /\ skey.args = <<U32Arg(42), RawArg(SubSeq(skey.bytes, 45, 60))>>

\* C12: the decoding of the arguments starts at offset 32 and the offset never
\* decreases: every argument of a successful decode is made of bytes of the key
\* at or after byte 32, whatever the key and the hashers.
C12_DecodingStartsAfterPrefix ==
  DecodedMap =>
     /\ keyOp.decode.offsets[1] = 32
     /\ \A i \in 1..Len(keyOp.decode.args) :
           LET arg == keyOp.decode.args[i]
               before == keyOp.decode.offsets[i]
               after == keyOp.decode.offsets[i + 1]
               from == IF arg.type = "Raw" THEN before ELSE after - Len(arg.u8a)
           IN /\ after >= before
              /\ from >= before
              /\ from >= 32
              /\ arg.u8a = Subarray(skey.bytes, from, from + Len(arg.u8a))

C12_Witness ==
  /\ keyOp.op = "setMeta"
  /\ keyOp.ok
  /\ keyOp.meta = Meta(MapType(<<"Blake2_128Concat">>, 2, 2))
  /\ Len(skey.bytes) = 52
  /\ keyOp.decode.offsets = <<32, 52>>
  /\ skey.args = <<[type |-> "u32", u8a |-> SubSeq(skey.bytes, 49, 52)]>>

\* C13: the hasher table is exactly Identity (0, decodable), Twox64Concat (8,
\* decodable), Blake2_128Concat (16, decodable), Twox128 and Blake2_128 (16,
\* opaque), Twox256 and Blake2_256 (32, opaque), and the decoder uses it: a
\* decoded argument is a Raw exactly for the opaque kinds, and the offset
\* advances by the table's hash length (plus the argument's length if decodable).
C13_HasherTable ==
  /\ AllHashers = DOMAIN HasherTable
  /\ \A h \in AllHashers : HASHER_MAP(h) = HasherTable[h]
  /\ DecodedMap =>
        \A i \in 1..Len(keyOp.meta.type.hashers) :
           LET entry == HasherTable[keyOp.meta.type.hashers[i]]
               arg == keyOp.decode.args[i]
           IN /\ (arg.type = "Raw") <=> ~entry[2]
              /\ keyOp.decode.offsets[i + 1] - keyOp.decode.offsets[i] =
                    entry[1] + (IF entry[2] THEN Len(arg.u8a) ELSE 0)

C13_Witness ==
  /\ keyOp.op = "setMeta"
  /\ keyOp.ok
  /\ keyOp.meta = Meta(MapType(<<"Blake2_256">>, 2, 2))
  /\ Len(skey.bytes) = 64
  /\ keyOp.decode.offsets = <<32, 64>>
  /\ skey.args = <<RawArg(SubSeq(skey.bytes, 33, 64))>>

\* the argument list the bytes of a key give under a descriptor: what the
\* decoding returns, the empty list when it fails
DerivedArgs(bytes, meta) ==
  IF DecodeArgsFromMeta(bytes, meta).ok THEN DecodeArgsFromMeta(bytes, meta).args ELSE <<>>

\* C19: after every setMeta call that returns, the argument list of the key is
\* the one its bytes give under the descriptor just set, never the arguments
\* decoded under a descriptor set before.
C19_ArgsFollowDescriptor ==
  (keyOp.op = "setMeta" /\ keyOp.ok) =>
     /\ skey.hasArgs
     /\ skey.args = DerivedArgs(skey.bytes, keyOp.meta)

\* what each well-known entry is expected to give: the bytes of its key string
\* (':changes_trie', ':child_storage:', ':code', ':extrinsic_index' and
\* ':heappages') and those bytes behind their compact-encoded length
WellKnownKeys ==
  {[method |-> "changesTrieConfig",
    key |-> <<58, 99, 104, 97, 110, 103, 101, 115, 95, 116, 114, 105, 101>>,
    prefixed |-> <<52, 58, 99, 104, 97, 110, 103, 101, 115, 95, 116, 114, 105, 101>>],
   [method |-> "childStorageKeyPrefix",
    key |-> <<58, 99, 104, 105, 108, 100, 95, 115, 116, 111, 114, 97, 103, 101, 58>>,
    prefixed |-> <<60, 58, 99, 104, 105, 108, 100, 95, 115, 116, 111, 114, 97, 103, 101, 58>>],
   [method |-> "code",
    key |-> <<58, 99, 111, 100, 101>>,
    prefixed |-> <<20, 58, 99, 111, 100, 101>>],
   [method |-> "extrinsicIndex",
    key |-> <<58, 101, 120, 116, 114, 105, 110, 115, 105, 99, 95, 105, 110, 100, 101, 120>>,
    prefixed |-> <<64, 58, 101, 120, 116, 114, 105, 110, 115, 105, 99, 95, 105, 110, 100,
                   101, 120>>],
   [method |-> "heapPages",
    key |-> <<58, 104, 101, 97, 112, 112, 97, 103, 101, 115>>,
    prefixed |-> <<40, 58, 104, 101, 97, 112, 112, 97, 103, 101, 115>>]}

\* C16: each well-known substrate entry, called with no arguments, returns the
\* bytes of its fixed key string behind their compact-encoded length (for
\* code: 20 and the bytes of ':code'), and its metadata type is plain, not a
\* map; the StorageKey made from it holds the key string's bytes and no
\* arguments.
C16_SubstrateEntries ==
  \A e \in WellKnownKeys :
     (/\ keyOp.op = "new"
      /\ keyOp.kind \in {"fn", "pair"}
      /\ keyOp.nargs = 0
      /\ keyOp.fn = [method |-> e.method, section |-> "Substrate"]) =>
        /\ keyOp.ok
        /\ keyOp.called = e.prefixed
        /\ keyOp.meta.defined
        /\ keyOp.meta.type.isPlain
        /\ ~keyOp.meta.type.isMap
        /\ skey.meta = keyOp.meta
        /\ skey.bytes = e.key
        /\ skey.hasArgs
        /\ skey.args = <<>>

C16_Witness ==
  /\ keyOp.op = "new"
  /\ keyOp.kind = "fn"
  /\ keyOp.fn = [method |-> "code", section |-> "Substrate"]
  /\ keyOp.called = <<20, 58, 99, 111, 100, 101>>
  /\ skey.bytes = <<58, 99, 111, 100, 101>>
  /\ skey.meta.type.isPlain
  /\ skey.outputType = "Bytes"
  /\ skey.method = "code"

\* C20: constructing a StorageKey from an array fails when its first element is
\* no function and, for an entry of map type, fails unless as many args are
\* given as the map has hashers; for an entry without metadata or of plain type
\* no number of args makes it fail.  A value that is no StorageKey, nothing, no
\* string, no bytes, no function and no array fails as not convertible, and the
\* accepted kinds never fail with one of these three errors.
C20_ConstructorInputChecks ==
  keyOp.op = "new" =>
     /\ (keyOp.kind = "pair" /\ ~keyOp.isFunction) =>
           /\ ~keyOp.ok
           /\ keyOp.err = "expectedFunction"
           /\ ~skey.exists
     /\ (/\ keyOp.kind = "pair"
         /\ keyOp.isFunction
         /\ keyOp.meta.defined
         /\ keyOp.meta.type.isMap) =>
           IF keyOp.nargs = Len(keyOp.meta.type.hashers)
           THEN keyOp.ok
           ELSE /\ ~keyOp.ok
                /\ keyOp.err = "expectedValues"
                /\ ~skey.exists
     /\ (/\ keyOp.kind = "pair"
         /\ keyOp.isFunction
         /\ (~keyOp.meta.defined \/ ~keyOp.meta.type.isMap)) =>
           /\ keyOp.ok
           /\ skey.exists
     /\ keyOp.kind = "other" =>
           /\ ~keyOp.ok
           /\ keyOp.err = "unableToConvert"
           /\ ~skey.exists
     /\ keyOp.kind \in {"key", "empty", "string", "u8a", "fn"} =>
           keyOp.err \notin {"expectedFunction", "expectedValues", "unableToConvert"}

C20_Witness ==
  /\ keyOp.op = "new"
  /\ keyOp.kind = "pair"
  /\ keyOp.isFunction
  /\ keyOp.meta = DoubleMap
  /\ keyOp.nargs = 1
  /\ ~keyOp.ok
  /\ keyOp.err = "expectedValues"
  /\ ~skey.exists

(***************************************************************************)
(* Properties of GenericExtrinsicSignatureV4, checked under SpecSig        *)
(***************************************************************************)
\* the last operation constructed the value from raw bytes, without isSigned
FromBytesNotSigned == sigOp.op = "new" /\ sigOp.ok /\ sigOp.kind = "u8a" /\ ~sigOp.isSigned

\* C21: encodedLength always equals the length of toU8a(); while the value is
\* not signed (its signature is empty) toU8a() is the empty byte array and
\* encodedLength is 0; and a value constructed from raw bytes without the
\* isSigned option is unsigned, whatever the bytes.
C21_LengthMatchesEncoding ==
  xsig.exists =>
    /\ EncodedLength(xsig) = Len(ToU8a(xsig))
    /\ (~IsSigned(xsig) => ToU8a(xsig) = <<>> /\ EncodedLength(xsig) = 0)
    /\ (FromBytesNotSigned => ~IsSigned(xsig))

\* a signed value decoded from wire bytes (isSigned given), whose signer is an
\* account index and whose nonce takes two bytes: its length is not fixed
C21_Witness ==
  /\ xsig.exists
  /\ sigOp.op = "new" /\ sigOp.kind = "u8a" /\ sigOp.isSigned /\ sigOp.ok
  /\ IsSigned(xsig)
  /\ xsig.fields["signer"].type = "AddressIndex"
  /\ xsig.fields["nonce"].number = 70
  /\ EncodedLength(xsig) = Len(sigOp.u8a) - 2
  /\ ToU8a(xsig) = Subarray(sigOp.u8a, 0, Len(sigOp.u8a) - 2)

(***************************************************************************)
(* Properties of _erasRewards, checked under SpecEras                      *)
(***************************************************************************)
\* the eras of a list that have no entry in a cache, in the order of the list
RECURSIVE Uncached(_, _)
Uncached(eras, cache) ==
  IF eras = <<>> THEN <<>>
  ELSE IF CacheKey(Head(eras)) \in DOMAIN cache
  THEN Uncached(Tail(eras), cache)
  ELSE <<Head(eras)>> \o Uncached(Tail(eras), cache)

\* a step emitted a list with one entry per requested era, in the requested
\* order, each carrying that era
EmitsOnePerEra(step) ==
  step.emitted =>
    /\ Len(step.out) = Len(step.eras)
    /\ \A i \in 1..Len(step.eras) : step.out[i].defined /\ step.out[i].era = step.eras[i]

\* a call with no eras emits the empty list and sends no query
EmptyListEmitsEmpty(step) ==
  (step.op = "call" /\ step.eras = <<>>) =>
    step.emitted /\ step.out = <<>> /\ ~step.queried

\* a call sent exactly the given eras, and no query when there are none
Sent(step, eras) ==
  /\ step.remaining = eras
  /\ step.queried <=> eras # <<>>

\* C22 as stated: one entry per requested era in order; only the eras without
\* a cache entry are sent in the query, none when every era is cached,
\* whatever withActive is; an empty list emits an empty list without a query.
C22_AsStated ==
  [][/\ EmitsOnePerEra(erasOp')
     /\ EmptyListEmitsEmpty(erasOp')
     /\ (erasOp'.op = "call" /\ erasOp'.eras # <<>>) =>
           Sent(erasOp', Uncached(erasOp'.eras, deriveCache))]_vars

\* C22, amended: one entry per requested era in order, each carrying that era;
\* with withActive = false only the eras without a cache entry are sent in
\* the query, and none when every era is cached; with withActive = true every
\* requested era is sent; an empty list emits an empty list without a query.
C22_OneEntryPerEra ==
  [][/\ EmitsOnePerEra(erasOp')
     /\ EmptyListEmitsEmpty(erasOp')
     /\ (erasOp'.op = "call" /\ erasOp'.eras # <<>>) =>
           Sent(erasOp', IF erasOp'.withActive THEN erasOp'.eras
                         ELSE Uncached(erasOp'.eras, deriveCache))]_vars

\* an answer for a call of two different eras of which the second was cached:
\* the emitted list joins the queried entry and the cached one
C22_Witness ==
  /\ erasOp.op = "answer" /\ ~erasOp.withActive
  /\ Len(erasOp.eras) = 2 /\ erasOp.eras[1] # erasOp.eras[2]
  /\ erasOp.remaining = <<erasOp.eras[1]>>
  /\ erasOp.out[1].era = erasOp.eras[1]
  /\ erasOp.out[2].era = erasOp.eras[2]
  /\ erasOp.out[2].eraReward # erasOp.out[1].eraReward

\* the keys of the eras a step's query was sent for
QueriedKeys(step) == {CacheKey(step.remaining[i]) : i \in 1..Len(step.remaining)}

\* the entry a step emitted at position i, as the cache stores it
Emitted(step, i) == [era |-> step.out[i].era, eraReward |-> step.out[i].eraReward]

\* C23: with withActive = true the derive cache is neither read nor written:
\* every requested era is queried and no entry is added or changed; with
\* withActive = false every queried era's result is stored under its key and
\* the entries of the eras that were not queried are left unchanged.
C23_CacheFrame ==
  [][/\ (erasOp'.op \in {"call", "answer"} /\ erasOp'.withActive) =>
           /\ erasOp'.reads = {}
           /\ deriveCache' = deriveCache
           /\ (erasOp'.op = "call" /\ erasOp'.eras # <<>>) => Sent(erasOp', erasOp'.eras)
     /\ (erasOp'.op = "answer" /\ ~erasOp'.withActive) =>
           /\ \A i \in 1..Len(erasOp'.eras) :
                 CacheKey(erasOp'.eras[i]) \in QueriedKeys(erasOp') =>
                    /\ CacheKey(erasOp'.eras[i]) \in DOMAIN deriveCache'
                    /\ deriveCache'[CacheKey(erasOp'.eras[i])] = Emitted(erasOp', i)
           /\ DOMAIN deriveCache' = DOMAIN deriveCache \cup QueriedKeys(erasOp')
           /\ \A key \in DOMAIN deriveCache :
                 key \notin QueriedKeys(erasOp') => deriveCache'[key] = deriveCache[key]
     /\ (erasOp'.op = "call" /\ ~erasOp'.withActive) => deriveCache' = deriveCache]_vars

\* an answer (withActive = false) stored the reward of the queried era, and
\* the cache holds the entry of an era that was not queried
C23_Witness ==
  /\ erasOp.op = "answer" /\ ~erasOp.withActive
  /\ erasOp.remaining # <<>>
  /\ \A key \in QueriedKeys(erasOp) : key \in DOMAIN deriveCache /\ deriveCache[key].eraReward = 5
  /\ \E key \in DOMAIN deriveCache : key \notin QueriedKeys(erasOp) /\ deriveCache[key].eraReward = 0

(***************************************************************************)
(* Properties of compareRationals, checked under SpecRat                   *)
(***************************************************************************)
\* n1/d1 < n2/d2 for the arguments the call was given, by cross multiplication
GivenIsLess == rat.given.n1 * rat.given.d2 < rat.given.n2 * rat.given.d1

\* C24: for non-negative n1, n2 and positive d1, d2 every call of
\* compareRationals leaves its loop, and the value it returns is true exactly
\* when n1/d1 < n2/d2 strictly (false when they are equal or the first is larger).
C24_CompareRationals ==
  /\ [](rat.pc = "done" => (rat.result <=> GivenIsLess))
  /\ [](rat.pc = "loop" => <>(rat.pc = "done"))

\* a call that went through the loop more than twice and returned true, and
\* the arguments were not trivially ordered by their integer parts
C24_Witness ==
  /\ rat.pc = "done"
  /\ rat.steps >= 3
  /\ rat.result
  /\ GivenIsLess

====
